---- MODULE Spec2Model ----
(***************************************************************************)
(* Verification model of the mortgage-advisor document pipeline:           *)
(*   src/src/lib/visionExtractor.js  (redactPII, extractSalaryFromDocument,*)
(*                                    formatSalaryConfirmation)            *)
(*   src/src/app/api/chat/route.js   (POST)                                *)
(* Texts are sequences of one-character strings; the regular expressions   *)
(* of the source are kept as syntax trees and run by a backtracking        *)
(* matcher with JavaScript's leftmost, greedy, first-alternative order.    *)
(***************************************************************************)
EXTENDS Integers, Sequences, FiniteSets, TLC

(***************************************************************************)
(* Character classes                                                       *)
(***************************************************************************)
Digit == {"0", "1", "2", "3", "4", "5", "6", "7", "8", "9"}

Upper == {"A", "B", "C", "D", "E", "F", "G", "H", "I", "J", "K", "L", "M",
          "N", "O", "P", "Q", "R", "S", "T", "U", "V", "W", "X", "Y", "Z"}

Lower == {"a", "b", "c", "d", "e", "f", "g", "h", "i", "j", "k", "l", "m",
          "n", "o", "p", "q", "r", "s", "t", "u", "v", "w", "x", "y", "z"}

Letter == Upper \cup Lower

\* \w of the regular expressions: what \b is measured against
WordChar == Letter \cup Digit \cup {"_"}

\* \s (the texts of the model use blank, tab and newline)
Space == {" ", "\t", "\n"}

(***************************************************************************)
(* Regular expressions as syntax trees                                     *)
(***************************************************************************)
Cls(S) == [t |-> "cls", set |-> S]

Ch(c) == Cls({c})

WB == [t |-> "wb"]

Cat(items) == [t |-> "cat", items |-> items]

Alt(items) == [t |-> "alt", items |-> items]

\* greedy repetition r{lo,hi}; hi = -1 is "no upper limit"
Rep(r, lo, hi) == [t |-> "rep", r |-> r, lo |-> lo, hi |-> hi]

Opt(r) == Rep(r, 0, 1)

Plus(r) == Rep(r, 1, -1)

Star(r) == Rep(r, 0, -1)

Times(r, n) == Rep(r, n, n)

\* \b at position i (between s[i-1] and s[i])
IsWordBoundary(s, i) ==
    LET before == i > 1 /\ s[i - 1] \in WordChar
        after == i <= Len(s) /\ s[i] \in WordChar
    IN before # after

\* a function on 1..n as a tuple
Tuple(f) == <<>> \o f

RECURSIVE Flatten(_)
Flatten(ss) == IF ss = <<>> THEN <<>> ELSE Head(ss) \o Flatten(Tail(ss))

\* Ends(n, s, i): the positions at which a match of n that starts at i can
\* end, in the order a backtracking matcher tries them (first = preferred).
RECURSIVE Ends(_, _, _)
RECURSIVE CatEnds(_, _, _, _)
RECURSIVE RepEnds(_, _, _, _)

CatEnds(items, k, s, i) ==
    IF k > Len(items)
    THEN <<i>>
    ELSE LET E == Ends(items[k], s, i)
         IN Flatten(Tuple([j \in 1..Len(E) |-> CatEnds(items, k + 1, s, E[j])]))

\* the general case: one more iteration is tried before stopping (greedy)
RepEnds(n, cnt, s, i) ==
    LET E == IF n.hi = -1 \/ cnt < n.hi THEN Ends(n.r, s, i) ELSE <<>>
        more == Flatten(Tuple([j \in 1..Len(E) |->
                    IF E[j] > i THEN RepEnds(n, cnt + 1, s, E[j]) ELSE <<>>]))
        stop == IF cnt >= n.lo THEN <<i>> ELSE <<>>
    IN more \o stop

\* how many characters from position i on lie in the class, at most hi
Run(set, hi, s, i) ==
    LET most == IF hi = -1 \/ hi > Len(s) - i + 1 THEN Len(s) - i + 1 ELSE hi
    IN CHOOSE k \in 0..most :
          /\ \A j \in 0..(k - 1) : s[i + j] \in set
          /\ k = most \/ s[i + k] \notin set

\* the same list for a repeated character class, longest first, computed
\* without recursion
ClsRepEnds(n, s, i) ==
    LET run == Run(n.r.set, n.hi, s, i)
    IN IF run < n.lo
       THEN <<>>
       ELSE Tuple([m \in 1..(run - n.lo + 1) |-> i + run - (m - 1)])

Ends(n, s, i) ==
    CASE n.t = "cls" -> IF i <= Len(s) /\ s[i] \in n.set THEN <<i + 1>> ELSE <<>>
      [] n.t = "wb"  -> IF IsWordBoundary(s, i) THEN <<i>> ELSE <<>>
      [] n.t = "cat" -> CatEnds(n.items, 1, s, i)
      [] n.t = "alt" ->
            Flatten(Tuple([j \in 1..Len(n.items) |-> Ends(n.items[j], s, i)]))
      [] n.t = "rep" ->
            IF n.r.t = "cls" THEN ClsRepEnds(n, s, i) ELSE RepEnds(n, 0, s, i)

\* RegExp.prototype.test without the g flag: is there a match anywhere
Test(re, s) == \E i \in 1..(Len(s) + 1) : Ends(re, s, i) # <<>>

\* Op applied to the value of v, v being evaluated once
With(v, Op(_)) == CHOOSE r \in {Op(x) : x \in {v}} : TRUE

\* the positions of s at which a match of re can start
MatchStarts(re, s) == {j : j \in {m \in 1..Len(s) : Ends(re, s, m) # <<>>}}

\* the least member of a non-empty set of positions
Least(P) == CHOOSE m \in P : \A o \in P : m <= o

\* String.prototype.replace with a g-flag pattern and a literal replacement:
\* leftmost match, replace, resume the search where the match ended. (No
\* pattern of the source matches the empty string.)
RECURSIVE ReplaceFrom(_, _, _, _, _)
ReplaceFrom(re, s, starts, i, repl) ==
    With({j : j \in {m \in starts : m >= i}}, LAMBDA later :
        IF later = {}
        THEN SubSeq(s, i, Len(s))
        ELSE With(Least(later), LAMBDA j :
                 With(Ends(re, s, j)[1], LAMBDA e :
                     SubSeq(s, i, j - 1) \o repl
                         \o ReplaceFrom(re, s, starts, e, repl))))

ReplaceAll(re, s, repl) ==
    With(s, LAMBDA t :
        With(MatchStarts(re, t), LAMBDA starts : ReplaceFrom(re, t, starts, 1, repl)))

\* String.prototype.match without the g flag: the first match, or <<>> for
\* null
Match(re, s) ==
    With(s, LAMBDA t :
        With(MatchStarts(re, t), LAMBDA starts :
            IF starts = {}
            THEN <<>>
            ELSE With(Least(starts), LAMBDA j : SubSeq(t, j, Ends(re, t, j)[1] - 1))))

(***************************************************************************)
(* redactPII: the scrubber (visionExtractor.js 39-68)                      *)
(***************************************************************************)
D == Cls(Digit)

S == Cls(Space)

\* [-\s]
DashOrSpace == Cls({"-"} \cup Space)

\* [-.\s]
DashDotSpace == Cls({"-", "."} \cup Space)

\* a literal, case-sensitive
Lit(w) == Cat(Tuple([k \in 1..Len(w) |-> Ch(w[k])]))

UpperSeq == <<"A", "B", "C", "D", "E", "F", "G", "H", "I", "J", "K", "L", "M",
              "N", "O", "P", "Q", "R", "S", "T", "U", "V", "W", "X", "Y", "Z">>

LowerSeq == <<"a", "b", "c", "d", "e", "f", "g", "h", "i", "j", "k", "l", "m",
              "n", "o", "p", "q", "r", "s", "t", "u", "v", "w", "x", "y", "z">>

\* the characters equal to c when case is ignored
CaseSet(c) ==
    IF c \in Letter
    THEN LET k == CHOOSE j \in 1..26 : UpperSeq[j] = c \/ LowerSeq[j] = c
         IN {UpperSeq[k], LowerSeq[k]}
    ELSE {c}

\* a literal under the i flag
LitI(w) == Cat(Tuple([k \in 1..Len(w) |-> Cls(CaseSet(w[k]))]))

\* the placeholder "[REDACTED_<kind>]"
Redacted(kind) ==
    <<"[", "R", "E", "D", "A", "C", "T", "E", "D", "_">> \o kind \o <<"]">>

REDACTED_IBAN == Redacted(<<"I", "B", "A", "N">>)

REDACTED_PASSPORT == Redacted(<<"P", "A", "S", "S", "P", "O", "R", "T">>)

REDACTED_EMIRATES_ID ==
    Redacted(<<"E", "M", "I", "R", "A", "T", "E", "S", "_", "I", "D">>)

REDACTED_EMAIL == Redacted(<<"E", "M", "A", "I", "L">>)

REDACTED_PHONE == Redacted(<<"P", "H", "O", "N", "E">>)

REDACTED_NAME == Redacted(<<"N", "A", "M", "E">>)

\* "Name: [REDACTED_NAME]"
NAME_REDACTED_NAME == <<"N", "a", "m", "e", ":", " ">> \o REDACTED_NAME

\* /\b(AE\d{2}\s?\d{4}\s?\d{4}\s?\d{4}\s?\d{4}\s?\d{3})\b/gi
IbanAeRe ==
    Cat(<<WB, LitI(<<"A", "E">>), Times(D, 2), Opt(S), Times(D, 4), Opt(S),
          Times(D, 4), Opt(S), Times(D, 4), Opt(S), Times(D, 4), Opt(S),
          Times(D, 3), WB>>)

\* /\bIBAN[:\s]*[A-Z]{2}\d{2}[A-Z0-9]+\b/gi
IbanLabelRe ==
    Cat(<<WB, LitI(<<"I", "B", "A", "N">>), Star(Cls({":"} \cup Space)),
          Times(Cls(Letter), 2), Times(D, 2), Plus(Cls(Letter \cup Digit)),
          WB>>)

\* /\b[A-Z]{1,2}\d{6,9}\b/g
PassportRe == Cat(<<WB, Rep(Cls(Upper), 1, 2), Rep(D, 6, 9), WB>>)

\* /\b784[-\s]?\d{4}[-\s]?\d{7}[-\s]?\d\b/g
EmiratesIdRe ==
    Cat(<<WB, Lit(<<"7", "8", "4">>), Opt(DashOrSpace), Times(D, 4),
          Opt(DashOrSpace), Times(D, 7), Opt(DashOrSpace), D, WB>>)

\* /\b[A-Za-z0-9._%+-]+@[A-Za-z0-9.-]+\.[A-Z|a-z]{2,}\b/g
EmailRe ==
    Cat(<<WB, Plus(Cls(Letter \cup Digit \cup {".", "_", "%", "+", "-"})),
          Ch("@"), Plus(Cls(Letter \cup Digit \cup {".", "-"})), Ch("."),
          Rep(Cls(Letter \cup {"|"}), 2, -1), WB>>)

\* /\b(\+971|00971|971|0)?[5][0-9]{8}\b/g
PhoneUaeRe ==
    Cat(<<WB,
          Opt(Alt(<<Lit(<<"+", "9", "7", "1">>),
                    Lit(<<"0", "0", "9", "7", "1">>),
                    Lit(<<"9", "7", "1">>), Lit(<<"0">>)>>)),
          Ch("5"), Times(D, 8), WB>>)

\* /\b(\+\d{1,3}[-.\s]?)?\(?\d{3}\)?[-.\s]?\d{3}[-.\s]?\d{4}\b/g
PhoneIntlRe ==
    Cat(<<WB, Opt(Cat(<<Ch("+"), Rep(D, 1, 3), Opt(DashDotSpace)>>)),
          Opt(Ch("(")), Times(D, 3), Opt(Ch(")")), Opt(DashDotSpace),
          Times(D, 3), Opt(DashDotSpace), Times(D, 4), WB>>)

\* [A-Z][a-z]+ and (\s+[A-Z][a-z]+)* of the two name patterns; under the i
\* flag both classes are all letters
Word(first, rest) == Cat(<<Cls(first), Plus(Cls(rest))>>)

MoreWords(first, rest) == Star(Cat(<<Plus(S), Word(first, rest)>>))

\* /\b(Mr\.?|Ms\.?|Mrs\.?|Dr\.?)\s+[A-Z][a-z]+(\s+[A-Z][a-z]+)*\b/g
HonorificRe ==
    Cat(<<WB,
          Alt(<<Cat(<<Lit(<<"M", "r">>), Opt(Ch("."))>>),
                Cat(<<Lit(<<"M", "s">>), Opt(Ch("."))>>),
                Cat(<<Lit(<<"M", "r", "s">>), Opt(Ch("."))>>),
                Cat(<<Lit(<<"D", "r">>), Opt(Ch("."))>>)>>),
          Plus(S), Word(Upper, Lower), MoreWords(Upper, Lower), WB>>)

\* the pattern for labelled names, were a name allowed to open with a bracket
LabeledNameRe_BracketedNames ==
    Cat(<<WB,
          Alt(<<LitI(<<"N", "a", "m", "e">>),
                Cat(<<LitI(<<"E", "m", "p", "l", "o", "y", "e", "e">>), Star(S),
                      LitI(<<"N", "a", "m", "e">>)>>),
                Cat(<<LitI(<<"F", "u", "l", "l">>), Star(S),
                      LitI(<<"N", "a", "m", "e">>)>>)>>),
          Plus(Cls({":"} \cup Space)), Opt(Ch("[")), Word(Letter, Letter),
          MoreWords(Letter, Letter)>>)

\* /\b(Name|Employee\s*Name|Full\s*Name)[:\s]+[A-Z][a-z]+(\s+[A-Z][a-z]+)*/gi
LabeledNameRe ==
    Cat(<<WB,
          Alt(<<LitI(<<"N", "a", "m", "e">>),
                Cat(<<LitI(<<"E", "m", "p", "l", "o", "y", "e", "e">>), Star(S),
                      LitI(<<"N", "a", "m", "e">>)>>),
                Cat(<<LitI(<<"F", "u", "l", "l">>), Star(S),
                      LitI(<<"N", "a", "m", "e">>)>>)>>),
          Plus(Cls({":"} \cup Space)), Word(Letter, Letter),
          MoreWords(Letter, Letter)>>)

\* the passes without the one for labelled names
ScrubPasses_NoLabeledName ==
    <<<<IbanAeRe, REDACTED_IBAN>>,
      <<IbanLabelRe, REDACTED_IBAN>>,
      <<PassportRe, REDACTED_PASSPORT>>,
      <<EmiratesIdRe, REDACTED_EMIRATES_ID>>,
      <<EmailRe, REDACTED_EMAIL>>,
      <<PhoneUaeRe, REDACTED_PHONE>>,
      <<PhoneIntlRe, REDACTED_PHONE>>,
      <<HonorificRe, REDACTED_NAME>>>>

\* The passes of redactPII in source order: <<pattern, replacement>>
ScrubPasses ==
    <<<<IbanAeRe, REDACTED_IBAN>>,
      <<IbanLabelRe, REDACTED_IBAN>>,
      <<PassportRe, REDACTED_PASSPORT>>,
      <<EmiratesIdRe, REDACTED_EMIRATES_ID>>,
      <<EmailRe, REDACTED_EMAIL>>,
      <<PhoneUaeRe, REDACTED_PHONE>>,
      <<PhoneIntlRe, REDACTED_PHONE>>,
      <<HonorificRe, REDACTED_NAME>>,
      <<LabeledNameRe, NAME_REDACTED_NAME>>>>

RECURSIVE ApplyPasses(_, _, _)
ApplyPasses(passes, k, text) ==
    IF k > Len(passes)
    THEN text
    ELSE ApplyPasses(passes, k + 1, ReplaceAll(passes[k][1], text, passes[k][2]))

\* A text is a sequence of characters; null and undefined are the two
\* sequences below, whose one element is no character.
NULL == <<"null">>

UNDEFINED == <<"undefined">>

\* what a call that throws a TypeError leaves in place of a text
TYPE_ERROR == <<"TypeError">>

\* redactPII without its first line: text.replace of null or undefined throws
redactPII_NoGuard(text) ==
    IF text \in {NULL, UNDEFINED} THEN TYPE_ERROR ELSE ApplyPasses(ScrubPasses, 1, text)

\* `if (!text) return text`: a falsy text is returned as it is
redactPII(text) ==
    IF text \in {<<>>, NULL, UNDEFINED} THEN text ELSE ApplyPasses(ScrubPasses, 1, text)

(***************************************************************************)
(* The validation gate (visionExtractor.js 144-151)                        *)
(***************************************************************************)
\* /AE\d{2}/i
GateIbanRe == Cat(<<LitI(<<"A", "E">>), Times(D, 2)>>)

\* /\b784[-\s]?\d{4}[-\s]?\d{7}[-\s]?\d\b/
GateEmiratesIdRe == EmiratesIdRe

\* /\+971|\b05\d{8}\b/
GatePhoneRe ==
    Alt(<<Lit(<<"+", "9", "7", "1">>),
          Cat(<<WB, Lit(<<"0", "5">>), Times(D, 8), WB>>)>>)

\* /\b[A-Z0-9._%+-]+@[A-Z0-9.-]+\.[A-Z]{2,}\b/i
GateEmailRe ==
    Cat(<<WB, Plus(Cls(Letter \cup Digit \cup {".", "_", "%", "+", "-"})),
          Ch("@"), Plus(Cls(Letter \cup Digit \cup {".", "-"})), Ch("."),
          Rep(Cls(Letter), 2, -1), WB>>)

piiPatterns == <<GateIbanRe, GateEmiratesIdRe, GatePhoneRe, GateEmailRe>>

\* piiPatterns.some(pattern => pattern.test(text))
piiPatternsSome(text) ==
    \E k \in 1..Len(piiPatterns) : Test(piiPatterns[k], text)

(***************************************************************************)
(* The reasoning model's response and its parsing (visionExtractor.js      *)
(* 202-227). A response is a sequence of lexical tokens: the braces, the   *)
(* comma, whole "key": value members, a key that introduces a nested       *)
(* object, and runs of prose.                                              *)
(***************************************************************************)
LBRACE == "{"

RBRACE == "}"

COMMA == ","

\* the members a response of the model can hold: token, key, value
Members ==
    {[tok |-> "\"basicSalary\": 12000", key |-> "basicSalary", val |-> 12000],
     [tok |-> "\"basicSalary\": 0", key |-> "basicSalary", val |-> 0],
     [tok |-> "\"housingAllowance\": 3000", key |-> "housingAllowance", val |-> 3000],
     [tok |-> "\"totalGrossSalary\": 18000", key |-> "totalGrossSalary", val |-> 18000],
     [tok |-> "\"netSalary\": 15000", key |-> "netSalary", val |-> 15000],
     [tok |-> "\"netSalary\": 0", key |-> "netSalary", val |-> 0],
     [tok |-> "\"currency\": \"USD\"", key |-> "currency", val |-> "USD"],
     [tok |-> "\"error\": \"Not a salary document\"", key |-> "error",
      val |-> "Not a salary document"],
     [tok |-> "\"error\": \"\"", key |-> "error", val |-> ""]}

MemberTokens == {m.tok : m \in Members}

MemberOf(tok) == CHOOSE m \in Members : m.tok = tok

\* a key whose value is a nested object
NestedKeys == {[tok |-> "\"details\":", key |-> "details"]}

NestedKeyTokens == {m.tok : m \in NestedKeys}

NestedKeyOf(tok) == CHOOSE m \in NestedKeys : m.tok = tok

\* text of the model outside any JSON
ProseTokens == {"Here is the extracted data:", "draft"}

EmptyObject == [k \in {} |-> 0]

ParseFailure == [ok |-> FALSE, val |-> EmptyObject, next |-> 0]

\* JSON's object grammar over the tokens: { } | { member (, member)* },
\* a later duplicate key replacing an earlier one. ParseObject reads one
\* object that starts at position i: [ok, val, next].
RECURSIVE ParseObject(_, _)
RECURSIVE ParseMembersFrom(_, _, _)

ParseMembersFrom(toks, i, acc) ==
    LET AfterMember(acc2, j) ==
            IF j > Len(toks) THEN ParseFailure
            ELSE IF toks[j] = RBRACE THEN [ok |-> TRUE, val |-> acc2, next |-> j + 1]
            ELSE IF toks[j] = COMMA THEN ParseMembersFrom(toks, j + 1, acc2)
            ELSE ParseFailure
    IN IF i > Len(toks) THEN ParseFailure
       ELSE IF toks[i] \in MemberTokens
       THEN With(MemberOf(toks[i]), LAMBDA m :
                AfterMember((m.key :> m.val) @@ acc, i + 1))
       ELSE IF toks[i] \in NestedKeyTokens
       THEN With(ParseObject(toks, i + 1), LAMBDA r :
                IF r.ok
                THEN AfterMember((NestedKeyOf(toks[i]).key :> r.val) @@ acc, r.next)
                ELSE ParseFailure)
       ELSE ParseFailure

ParseObject(toks, i) ==
    IF i + 1 > Len(toks) \/ toks[i] # LBRACE THEN ParseFailure
    ELSE IF toks[i + 1] = RBRACE
    THEN [ok |-> TRUE, val |-> EmptyObject, next |-> i + 2]
    ELSE ParseMembersFrom(toks, i + 1, EmptyObject)

\* JSON.parse of a text that starts with a brace: the object, or a
\* SyntaxError (ok = FALSE) when the text is not exactly one object
JSONParse(toks) ==
    With(ParseObject(toks, 1), LAMBDA r :
        IF r.ok /\ r.next = Len(toks) + 1
        THEN [ok |-> TRUE, val |-> r.val]
        ELSE [ok |-> FALSE, val |-> EmptyObject])

ResponseTokens ==
    {LBRACE, RBRACE, COMMA} \cup MemberTokens \cup NestedKeyTokens \cup ProseTokens

\* /\{[\s\S]*\}/ : a brace, anything (greedy), a brace
JsonMatchRe == Cat(<<Ch(LBRACE), Star(Cls(ResponseTokens)), Ch(RBRACE)>>)

\* responseText.match(/\{[\s\S]*\}/): <<>> stands for null
jsonMatch(responseText) == Match(JsonMatchRe, responseText)

\* JavaScript truthiness of a string field / a number field of an object
TruthyString(obj, key) == key \in DOMAIN obj /\ obj[key] # ""

TruthyNumber(obj, key) == key \in DOMAIN obj /\ obj[key] # 0

(***************************************************************************)
(* Errors and outcomes of extractSalaryFromDocument                        *)
(***************************************************************************)
MSG_NO_KEY == "GOOGLE_API_KEY not configured"

MSG_PII == "Security validation failed: PII detected in scrubbed text"

MSG_NO_JSON == "Could not extract JSON from LLM response"

MSG_FALLBACK == "Failed to extract salary information"

\* the message of the TypeError of Buffer.from(undefined, "base64")
MSG_BUFFER_TYPE_ERROR == "The first argument must be of type string or an instance of Buffer, ArrayBuffer, or Array or an Array-like Object. Received undefined"

\* the message of the SyntaxError of JSON.parse
MSG_JSON_SYNTAX_ERROR == "Unexpected token in JSON"

\* the messages of the errors the OCR / reasoning service client can throw;
\* "" is an error that carries no message
ExternalErrorTexts ==
    {"[GoogleGenerativeAI Error]: Error fetching from https://generativelanguage.googleapis.com: fetch failed",
     "[GoogleGenerativeAI Error]: [429 Too Many Requests] Resource has been exhausted",
     ""}

NoError == [at |-> "none", message |-> ""]

NoData == EmptyObject

\* the catch block (229-235)
CatchResult(error) ==
    [success |-> FALSE,
     error |-> IF error.message # "" THEN error.message ELSE MSG_FALLBACK,
     data |-> NoData]

\* a parser that answers an empty extraction when the response holds no
\* braces
ParseModelResponse_EmptyOnNoMatch(responseText) ==
    With(jsonMatch(responseText), LAMBDA m :
        IF m = <<>>
        THEN <<NoError, NoData, [success |-> TRUE, error |-> "", data |-> NoData]>>
        ELSE With(JSONParse(m), LAMBDA parsed :
                IF ~parsed.ok
                THEN LET e == [at |-> "json_parse", message |-> MSG_JSON_SYNTAX_ERROR]
                     IN <<e, NoData, CatchResult(e)>>
                ELSE IF TruthyString(parsed.val, "error")
                THEN <<NoError, parsed.val,
                       [success |-> FALSE, error |-> parsed.val["error"], data |-> NoData]>>
                ELSE <<NoError, parsed.val,
                       [success |-> TRUE, error |-> "", data |-> parsed.val]>>))

\* lines 206-227: what the response of the reasoning model is turned into,
\* as <<error thrown, parsed object, result>>
ParseModelResponse(responseText) ==
    With(jsonMatch(responseText), LAMBDA m :
        IF m = <<>>
        THEN LET e == [at |-> "no_json", message |-> MSG_NO_JSON]
             IN <<e, NoData, CatchResult(e)>>
        ELSE With(JSONParse(m), LAMBDA parsed :
                IF ~parsed.ok
                THEN LET e == [at |-> "json_parse", message |-> MSG_JSON_SYNTAX_ERROR]
                     IN <<e, NoData, CatchResult(e)>>
                ELSE IF TruthyString(parsed.val, "error")
                THEN <<NoError, parsed.val,
                       [success |-> FALSE, error |-> parsed.val["error"], data |-> NoData]>>
                ELSE <<NoError, parsed.val,
                       [success |-> TRUE, error |-> "", data |-> parsed.val]>>))

(***************************************************************************)
(* The confirmation message (visionExtractor.js 241-293) and the income    *)
(* precedence of the route (route.js 76-79)                                *)
(***************************************************************************)
\* a JavaScript number that may be undefined
Undefined == [defined |-> FALSE, value |-> 0]

Num(n) == [defined |-> TRUE, value |-> n]

Field(obj, key) == IF key \in DOMAIN obj THEN Num(obj[key]) ELSE Undefined

Truthy(x) == x.defined /\ x.value # 0

\* a || b
OrElse(a, b) == IF Truthy(a) THEN a ELSE b

\* three digits, zero-padded
Pad3(k) ==
    IF k < 10 THEN "00" \o ToString(k)
    ELSE IF k < 100 THEN "0" \o ToString(k)
    ELSE ToString(k)

\* Number.prototype.toLocaleString() of a natural number: groups of three
RECURSIVE toLocaleString(_)
toLocaleString(n) ==
    IF n < 1000
    THEN ToString(n)
    ELSE toLocaleString(n \div 1000) \o "," \o Pad3(n % 1000)

MSG_INTRO == "I've analyzed your salary slip. Here's what I found:\n\n"

MSG_CLOSING == "\n\nDoes this look correct? If yes, I can help you calculate how much you can afford for a mortgage!"

\* one `if (field) message += ...` of the formatter (the pictograph that
\* starts each line is left out of the label)
FieldLine(salaryData, key, label, currency) ==
    IF TruthyNumber(salaryData, key)
    THEN label \o ": " \o currency \o " " \o toLocaleString(salaryData[key]) \o "\n"
    ELSE ""

formatSalaryConfirmation(salaryData, monthlySalaryUsed) ==
    LET currency == IF "currency" \in DOMAIN salaryData
                    THEN salaryData["currency"] ELSE "AED"
    IN MSG_INTRO
       \o FieldLine(salaryData, "basicSalary", "Basic Salary", currency)
       \o FieldLine(salaryData, "housingAllowance", "Housing Allowance", currency)
       \o FieldLine(salaryData, "transportationAllowance",
                    "Transportation Allowance", currency)
       \o FieldLine(salaryData, "totalGrossSalary", "\nTotal Gross Salary", currency)
       \o FieldLine(salaryData, "deductions", "Deductions", currency)
       \o FieldLine(salaryData, "netSalary", "Net Salary", currency)
       \o (IF Truthy(monthlySalaryUsed)
           THEN "\n**Using for mortgage calculations:** " \o currency \o " "
                \o toLocaleString(monthlySalaryUsed.value) \o "/month"
           ELSE "")
       \o MSG_CLOSING

\* salaryData.netSalary || salaryData.totalGrossSalary || salaryData.basicSalary
monthlyIncome(salaryData) ==
    OrElse(OrElse(Field(salaryData, "netSalary"),
                  Field(salaryData, "totalGrossSalary")),
           Field(salaryData, "basicSalary"))

(***************************************************************************)
(* Inputs of the model                                                     *)
(***************************************************************************)
\* "Name: John Smith, "
FRAG_NAME ==
    <<"N", "a", "m", "e", ":", " ", "J", "o", "h", "n", " ", "S", "m", "i",
      "t", "h", ",", " ">>

\* "AE070331234567890123456"
IBAN_AE ==
    <<"A", "E", "0", "7", "0", "3", "3", "1", "2", "3", "4", "5", "6", "7",
      "8", "9", "0", "1", "2", "3", "4", "5", "6">>

\* "IBAN: AE070331234567890123456, "
FRAG_IBAN_LABELED == <<"I", "B", "A", "N", ":", " ">> \o IBAN_AE \o <<",", " ">>

\* "salary AED 15,000 "
FRAG_SALARY ==
    <<"s", "a", "l", "a", "r", "y", " ", "A", "E", "D", " ", "1", "5", ",",
      "0", "0", "0", " ">>

\* "AE07-0331-2345-6789-0123-456": the same IBAN printed with hyphens
IBAN_AE_HYPHENS ==
    <<"A", "E", "0", "7", "-", "0", "3", "3", "1", "-", "2", "3", "4", "5",
      "-", "6", "7", "8", "9", "-", "0", "1", "2", "3", "-", "4", "5", "6">>

\* "DE89370400440532013000": a German IBAN
IBAN_DE ==
    <<"D", "E", "8", "9", "3", "7", "0", "4", "0", "0", "4", "4", "0", "5",
      "3", "2", "0", "1", "3", "0", "0", "0">>

\* the pieces the OCR text of a document is made of
Fragments ==
    {FRAG_NAME, FRAG_IBAN_LABELED, FRAG_SALARY, IBAN_AE_HYPHENS \o <<" ">>,
     IBAN_DE \o <<" ">>}

\* how many pieces an OCR text has at most
MaxFragments == 2

\* how many pieces a response of the reasoning model has at most
MaxChunks == 2

RECURSIVE Concatenations(_, _)
Concatenations(pieces, n) ==
    IF n = 0
    THEN {<<>>}
    ELSE LET shorter == Concatenations(pieces, n - 1)
         IN shorter \cup {t \o f : t \in shorter, f \in pieces}

\* what the OCR service can return for a document
RawTexts == Concatenations(Fragments, MaxFragments)

\* the pieces a response of the reasoning model is made of
Chunks ==
    {<<"Here is the extracted data:">>,
     <<LBRACE, "\"basicSalary\": 12000", COMMA, "\"netSalary\": 15000", RBRACE>>,
     <<LBRACE, "\"error\": \"\"", COMMA, "\"netSalary\": 0", COMMA,
       "\"totalGrossSalary\": 18000", COMMA, "\"currency\": \"USD\"", RBRACE>>,
     <<LBRACE, "\"error\": \"Not a salary document\"", RBRACE>>,
     <<LBRACE, "draft", RBRACE>>,
     <<LBRACE, "\"details\":", LBRACE, "\"housingAllowance\": 3000", RBRACE,
       COMMA, "\"netSalary\": 15000", RBRACE>>}

\* what the reasoning model can answer
ResponseTexts == Concatenations(Chunks, MaxChunks)

\* the file object of the request body: attached or not, with or without
\* its data and its mimeType
Files ==
    {[attached |-> FALSE, data |-> FALSE, mimeType |-> FALSE]}
        \cup [attached : {TRUE}, data : BOOLEAN, mimeType : BOOLEAN]

\* a request to POST /api/chat: the token cookie, whether the body is JSON,
\* whether messages is an array, the file
Requests ==
    [token : {"none", "invalid", "valid"}, bodyIsJson : BOOLEAN,
     messagesIsArray : BOOLEAN, file : Files]

NoRequest ==
    [token |-> "none", bodyIsJson |-> FALSE, messagesIsArray |-> FALSE,
     file |-> [attached |-> FALSE, data |-> FALSE, mimeType |-> FALSE]]

\* what runConversationTurn can return as the assistant's message
ChatReplies == {"How long do you plan to stay in the UAE?"}

(***************************************************************************)
(* State                                                                   *)
(***************************************************************************)
VARIABLES
    pc,                 \* where the handler of the request stands
    apiKeyConfigured,   \* process.env.GOOGLE_API_KEY is set
    request,            \* the request being handled
    ocrRequests,        \* the requests sent to the OCR service so far
    rawText,            \* const rawText (134)
    scrubbedText,       \* const scrubbedText (139)
    hasPII,             \* const hasPII (151)
    reasoningRequests,  \* the texts sent to the reasoning model so far
    responseText,       \* const responseText (202)
    thrown,             \* the error caught at line 229, with where it was thrown
    extractedData,      \* const extractedData (212)
    extractionResult,   \* what extractSalaryFromDocument returned
    chatCalls,          \* the calls of runConversationTurn so far
    response,           \* the HTTP response of POST
    stages,             \* the pipeline stages run so far, in order
    call,               \* a function called by itself: its name and arguments
    ret,                \* what that call returned, under a name of its own
    invocations,        \* the locals of each of two concurrent calls of
                        \* extractSalaryFromDocument
    logs,               \* what console.log and console.error have written
                        \* while a document request is handled
    cached,             \* global.mongoose: conn and promise (mongodb.js)
    connects,           \* the calls of mongoose.connect and of connectDB, and
                        \* the continuations waiting to run
    chat,               \* the state of the Chat component: messages, sending,
                        \* and its requests to /api/chat that are under way
    browser             \* the page shown, the token cookie, the token of
                        \* localStorage and where handleLogout stands

vars ==
    <<pc, apiKeyConfigured, request, ocrRequests, rawText, scrubbedText, hasPII,
      reasoningRequests, responseText, thrown, extractedData, extractionResult,
      chatCalls, response, stages, call, ret, invocations, logs, cached,
      connects, chat, browser>>

\* the state of connectDB
dbVars == <<cached, connects>>

\* the state of the browser
browserVars == <<chat, browser>>

\* the state outside the server's handling of a chat request
besideVars == <<dbVars, browserVars>>

\* Chat.jsx 7-9: the message the component starts with. A message carries,
\* besides role and content, the request that wrote it and the request whose
\* "..." it was put in for (0: none).
GREETING ==
    [role |-> "assistant", content |-> "Hi! I'm your mortgage buddy. Tell me anything.",
     request |-> 0, slot |-> 0]

\* the Chat component as it is mounted: useState of lines 7-11, no request
\* under way, none sent
NoChat == [messages |-> <<GREETING>>, sending |-> FALSE, fetches |-> {}, sent |-> 0]

\* a page and how far the navigation to it has come: asked of the server
\* (the middleware runs), rendered (its effect runs), shown
At(path, stage) == [path |-> path, stage |-> stage]

\* how many calls of connectDB can be under way at the same time
MaxCallers == 2

\* the callers of connectDB
Callers == 1..MaxCallers

\* a call of connectDB that has not been made: where it stands, the attempt
\* whose promise it awaits, whether it called mongoose.connect, the
\* connection it returned, and what had become of the attempts when it was
\* made
NoConnectCall ==
    [pc |-> "idle", awaits |-> 0, started |-> FALSE, result |-> 0,
     afterSuccess |-> FALSE, afterFailure |-> FALSE]

\* the state that the handling of a request leaves alone
apartVars == <<call, ret, invocations, besideVars>>

\* the calls of extractSalaryFromDocument that run at the same time
Invocations == {1, 2}

\* what an external service answered: a text, or an error with its message
NoAnswer == [ok |-> FALSE, text |-> <<>>, message |-> ""]

NoCall == [fn |-> "none"]

NoReturn == [fn |-> "none"]

NoResult == [success |-> FALSE, error |-> "", data |-> NoData]

NoResponse == [status |-> 0, error |-> "", content |-> "", income |-> Undefined]

\* a call that has not started: its argument, its locals, what the services
\* answered to it and what it returned
NoInvocation ==
    [pc |-> "idle", fileData |-> FALSE, ocr |-> NoAnswer, rawText |-> <<>>,
     scrubbedText |-> <<>>, hasPII |-> FALSE, reasoning |-> NoAnswer,
     result |-> NoResult]

Init ==
    /\ pc = "idle"
    /\ apiKeyConfigured \in BOOLEAN
    /\ request = NoRequest
    /\ ocrRequests = <<>>
    /\ rawText = <<>>
    /\ scrubbedText = <<>>
    /\ hasPII = FALSE
    /\ reasoningRequests = <<>>
    /\ responseText = <<>>
    /\ thrown = NoError
    /\ extractedData = NoData
    /\ extractionResult = NoResult
    /\ chatCalls = 0
    /\ response = NoResponse
    /\ stages = <<>>
    /\ call = NoCall
    /\ ret = NoReturn
    /\ invocations = [i \in Invocations |-> NoInvocation]
    /\ logs = <<>>
    /\ cached = [conn |-> 0, promise |-> 0]
    /\ connects = [attempts |-> <<>>,
                   calls |-> [c \in Callers |-> NoConnectCall],
                   waiting |-> <<>>,
                   jobs |-> <<>>]
    /\ chat = NoChat
    /\ browser = [location |-> At("/chat", "shown"), cookieToken |-> TRUE,
                  localToken |-> TRUE, logout |-> "idle"]

(***************************************************************************)
(* POST /api/chat (route.js 12-115)                                        *)
(***************************************************************************)
pipelineVars ==
    <<ocrRequests, rawText, scrubbedText, hasPII, reasoningRequests,
      responseText, thrown, extractedData, extractionResult, stages>>

\* a call of console.log or console.error: the line it stands on and its
\* arguments after the fixed label, a number, a text or an object
LogLine(line, number, message, data) ==
    [line |-> line, number |-> number, message |-> message, data |-> data]

\* a line that writes its label only
Said(line) == LogLine(line, 0, "", NoData)

\* 230: console.error("... Failed:", error)
Caught(message) == LogLine("visionExtractor.js:230", 0, message, NoData)

\* a text as one string
RECURSIVE Str(_)
Str(t) == IF t = <<>> THEN "" ELSE t[1] \o Str(Tail(t))

Reply(status, error, content, income) ==
    [status |-> status, error |-> error, content |-> content, income |-> income]

\* 19-33: no token cookie, or one that jwt.verify rejects
POST_Unauthorized(req) ==
    /\ pc = "idle"
    /\ req.token # "valid"
    /\ request' = req
    /\ response' = Reply(401, "unauthorized", "", Undefined)
    /\ pc' = "done"
    /\ UNCHANGED <<apiKeyConfigured, chatCalls>>
    /\ UNCHANGED pipelineVars
    /\ UNCHANGED apartVars
    /\ UNCHANGED logs

\* 36 and 111-114: req.json() throws, the outer catch answers
POST_BodyUnreadable(req) ==
    /\ pc = "idle"
    /\ req.token = "valid"
    /\ ~req.bodyIsJson
    /\ request' = req
    /\ response' = Reply(500, "server_error", "", Undefined)
    /\ pc' = "done"
    /\ UNCHANGED <<apiKeyConfigured, chatCalls>>
    /\ UNCHANGED pipelineVars
    /\ UNCHANGED apartVars
    /\ UNCHANGED logs

\* 42-45
POST_InvalidPayload(req) ==
    /\ pc = "idle"
    /\ req.token = "valid"
    /\ req.bodyIsJson
    /\ ~req.messagesIsArray
    /\ request' = req
    /\ response' = Reply(400, "invalid_payload", "", Undefined)
    /\ pc' = "done"
    /\ UNCHANGED <<apiKeyConfigured, chatCalls>>
    /\ UNCHANGED pipelineVars
    /\ UNCHANGED apartVars
    /\ UNCHANGED logs

\* 50-57: a file is attached, extractSalaryFromDocument is entered
POST_File(req) ==
    /\ pc = "idle"
    /\ req.token = "valid"
    /\ req.bodyIsJson
    /\ req.messagesIsArray
    /\ req.file.attached
    /\ request' = req
    /\ pc' = "extract"
    /\ UNCHANGED <<apiKeyConfigured, chatCalls, response>>
    /\ UNCHANGED pipelineVars
    /\ UNCHANGED apartVars
    /\ UNCHANGED logs

\* 105-106: no file, the conversation model is called
POST_Chat(req) ==
    /\ pc = "idle"
    /\ req.token = "valid"
    /\ req.bodyIsJson
    /\ req.messagesIsArray
    /\ ~req.file.attached
    /\ request' = req
    /\ chatCalls' = chatCalls + 1
    /\ pc' = "awaitChat"
    /\ UNCHANGED <<apiKeyConfigured, response>>
    /\ UNCHANGED pipelineVars
    /\ UNCHANGED apartVars
    /\ UNCHANGED logs

\* 108-109
Chat_Respond(reply) ==
    /\ pc = "awaitChat"
    /\ response' = Reply(200, "", reply, Undefined)
    /\ pc' = "done"
    /\ UNCHANGED <<apiKeyConfigured, request, chatCalls>>
    /\ UNCHANGED pipelineVars
    /\ UNCHANGED apartVars
    /\ UNCHANGED logs

\* 111-114: runConversationTurn throws
Chat_Fail ==
    /\ pc = "awaitChat"
    /\ response' = Reply(500, "server_error", "", Undefined)
    /\ pc' = "done"
    /\ UNCHANGED <<apiKeyConfigured, request, chatCalls>>
    /\ UNCHANGED pipelineVars
    /\ UNCHANGED apartVars
    /\ UNCHANGED logs

MSG_UNSAFE == "I couldn't safely extract salary data. Please try another document."

\* a route that answers every failed extraction with its generic message
POST_ExtractionFailed_Generic ==
    /\ pc = "extracted"
    /\ ~extractionResult.success
    /\ response' = Reply(200, "", MSG_UNSAFE, Undefined)
    /\ pc' = "done"
    /\ UNCHANGED <<apiKeyConfigured, request, chatCalls>>
    /\ UNCHANGED pipelineVars
    /\ logs' = logs \o <<LogLine("route.js:60", 0, extractionResult.error, NoData)>>
    /\ UNCHANGED apartVars

\* 59-69: the extraction failed, its error is the assistant's message
POST_ExtractionFailed ==
    /\ pc = "extracted"
    /\ ~extractionResult.success
    /\ response' =
          Reply(200, "",
                IF extractionResult.error # "" THEN extractionResult.error
                ELSE MSG_UNSAFE,
                Undefined)
    /\ pc' = "done"
    /\ UNCHANGED <<apiKeyConfigured, request, chatCalls>>
    /\ UNCHANGED pipelineVars
    /\ logs' = logs \o <<LogLine("route.js:60", 0, extractionResult.error, NoData)>>
    /\ UNCHANGED apartVars

\* 71-98: the confirmation message and the income chosen
POST_Confirmation ==
    /\ pc = "extracted"
    /\ extractionResult.success
    /\ LET salaryData == extractionResult.data
           income == monthlyIncome(salaryData)
       IN response' =
             Reply(200, "", formatSalaryConfirmation(salaryData, income), income)
    /\ pc' = "done"
    /\ UNCHANGED <<apiKeyConfigured, request, chatCalls>>
    /\ UNCHANGED pipelineVars
    /\ logs' = logs \o <<Said("route.js:71"),
                     LogLine("route.js:72", 0, "", extractionResult.data),
                     LogLine("route.js:81", monthlyIncome(extractionResult.data).value, "", NoData)>>
    /\ UNCHANGED apartVars

(***************************************************************************)
(* extractSalaryFromDocument (visionExtractor.js 123-236)                  *)
(***************************************************************************)
routeVars == <<apiKeyConfigured, request, chatCalls, response>>

\* throw ... caught at 229: the failure is returned at once
Throw(error) ==
    /\ thrown' = error
    /\ extractionResult' = CatchResult(error)
    /\ pc' = "extracted"

\* 127-129
Extract_NoKey ==
    /\ pc = "extract"
    /\ ~apiKeyConfigured
    /\ Throw([at |-> "config", message |-> MSG_NO_KEY])
    /\ UNCHANGED <<ocrRequests, rawText, scrubbedText, hasPII, reasoningRequests,
                   responseText, extractedData, stages>>
    /\ UNCHANGED routeVars
    /\ logs' = logs \o <<Said("visionExtractor.js:125"), Caught(MSG_NO_KEY)>>
    /\ UNCHANGED apartVars

\* 132-133: the file object has no data, Buffer.from(undefined, "base64") throws
Extract_BufferFail ==
    /\ pc = "extract"
    /\ apiKeyConfigured
    /\ ~request.file.data
    /\ Throw([at |-> "buffer", message |-> MSG_BUFFER_TYPE_ERROR])
    /\ UNCHANGED <<ocrRequests, rawText, scrubbedText, hasPII, reasoningRequests,
                   responseText, extractedData, stages>>
    /\ UNCHANGED routeVars
    /\ logs' = logs \o <<Said("visionExtractor.js:125"), Caught(MSG_BUFFER_TYPE_ERROR)>>
    /\ UNCHANGED apartVars

\* 134, 92-112: the document is sent to the OCR service
Extract_CallOCR ==
    /\ pc = "extract"
    /\ apiKeyConfigured
    /\ request.file.data
    /\ ocrRequests' = Append(ocrRequests, [mimeType |-> request.file.mimeType])
    /\ stages' = Append(stages, "ocr")
    /\ pc' = "awaitOCR"
    /\ UNCHANGED <<rawText, scrubbedText, hasPII, reasoningRequests, responseText,
                   thrown, extractedData, extractionResult>>
    /\ UNCHANGED routeVars
    /\ logs' = logs \o <<Said("visionExtractor.js:125"), Said("visionExtractor.js:93"), Said("visionExtractor.js:94")>>
    /\ UNCHANGED apartVars

\* an answer of the OCR service that is written to the log in full
OCR_Respond_LogsText(text) ==
    /\ pc = "awaitOCR"
    /\ rawText' = text
    /\ pc' = "scrub"
    /\ UNCHANGED <<ocrRequests, scrubbedText, hasPII, reasoningRequests,
                   responseText, thrown, extractedData, extractionResult, stages>>
    /\ UNCHANGED routeVars
    /\ logs' = logs \o <<LogLine("visionExtractor.js:135", Len(text), Str(text), NoData)>>
    /\ UNCHANGED apartVars

\* 114, 134-135: the OCR service answers with the text of the document
OCR_Respond(text) ==
    /\ pc = "awaitOCR"
    /\ rawText' = text
    /\ pc' = "scrub"
    /\ UNCHANGED <<ocrRequests, scrubbedText, hasPII, reasoningRequests,
                   responseText, thrown, extractedData, extractionResult, stages>>
    /\ UNCHANGED routeVars
    /\ logs' = logs \o <<LogLine("visionExtractor.js:135", Len(text), "", NoData)>>
    /\ UNCHANGED apartVars

\* a failed OCR call that is tried again
OCR_Fail_Retry(message) ==
    /\ pc = "awaitOCR"
    /\ pc' = "extract"
    /\ UNCHANGED pipelineVars
    /\ UNCHANGED routeVars
    /\ UNCHANGED apartVars
    /\ UNCHANGED logs

\* 104, 229: the call of the OCR service throws
OCR_Fail(message) ==
    /\ pc = "awaitOCR"
    /\ Throw([at |-> "ocr", message |-> message])
    /\ UNCHANGED <<ocrRequests, rawText, scrubbedText, hasPII, reasoningRequests,
                   responseText, extractedData, stages>>
    /\ UNCHANGED routeVars
    /\ logs' = logs \o <<Caught(message)>>
    /\ UNCHANGED apartVars

\* 139
Scrub ==
    /\ pc = "scrub"
    /\ scrubbedText' = redactPII(rawText)
    /\ stages' = Append(stages, "scrub")
    /\ pc' = "gate"
    /\ UNCHANGED <<ocrRequests, rawText, hasPII, reasoningRequests, responseText,
                   thrown, extractedData, extractionResult>>
    /\ UNCHANGED routeVars
    /\ logs' = logs \o <<Said("visionExtractor.js:138"), Said("visionExtractor.js:140")>>
    /\ UNCHANGED apartVars

\* a gate whose verdict is not acted on
GateBlocks_Never(found) == FALSE

\* 152: if (hasPII)
GateBlocks(found) == found

\* 144-155
Gate ==
    /\ pc = "gate"
    /\ hasPII' = piiPatternsSome(scrubbedText)
    /\ stages' = Append(stages, "gate")
    /\ IF GateBlocks(hasPII')
       THEN Throw([at |-> "gate", message |-> MSG_PII])
       ELSE /\ pc' = "reason"
            /\ UNCHANGED <<thrown, extractionResult>>
    /\ UNCHANGED <<ocrRequests, rawText, scrubbedText, reasoningRequests,
                   responseText, extractedData>>
    /\ UNCHANGED routeVars
    /\ logs' = logs \o <<Said("visionExtractor.js:143")>>
                   \o (IF GateBlocks(hasPII')
                       THEN <<Said("visionExtractor.js:153"), Caught(MSG_PII)>>
                       ELSE <<Said("visionExtractor.js:156")>>)
    /\ UNCHANGED apartVars

\* 160-201: the prompt, the fixed template around scrubbedText, is sent to
\* the reasoning model
CallReasoning ==
    /\ pc = "reason"
    /\ reasoningRequests' = Append(reasoningRequests, scrubbedText)
    /\ stages' = Append(stages, "reason")
    /\ pc' = "awaitReasoning"
    /\ UNCHANGED <<ocrRequests, rawText, scrubbedText, hasPII, responseText,
                   thrown, extractedData, extractionResult>>
    /\ UNCHANGED routeVars
    /\ logs' = logs \o <<Said("visionExtractor.js:159")>>
    /\ UNCHANGED apartVars

\* 202-227: the reasoning model answers, the answer is parsed
Reasoning_Respond(text) ==
    /\ pc = "awaitReasoning"
    /\ responseText' = text
    /\ \E r \in {ParseModelResponse(text)} :
          /\ thrown' = r[1]
          /\ extractedData' = r[2]
          /\ extractionResult' = r[3]
    /\ pc' = "extracted"
    /\ UNCHANGED <<ocrRequests, rawText, scrubbedText, hasPII, reasoningRequests,
                   stages>>
    /\ UNCHANGED routeVars
    /\ logs' = logs \o <<Said("visionExtractor.js:204")>>
                   \o (IF thrown' # NoError THEN <<Caught(thrown'.message)>>
                       ELSE IF extractionResult'.success THEN <<Said("visionExtractor.js:222")>>
                       ELSE <<>>)
    /\ UNCHANGED apartVars

\* 201, 229: the call of the reasoning model throws
Reasoning_Fail(message) ==
    /\ pc = "awaitReasoning"
    /\ Throw([at |-> "reasoning", message |-> message])
    /\ UNCHANGED <<ocrRequests, rawText, scrubbedText, hasPII, reasoningRequests,
                   responseText, extractedData, stages>>
    /\ UNCHANGED routeVars
    /\ logs' = logs \o <<Caught(message)>>
    /\ UNCHANGED apartVars

(***************************************************************************)
(* Specifications                                                          *)
(***************************************************************************)
\* the steps the server takes by itself
ServerStep ==
    \/ Extract_NoKey
    \/ Extract_BufferFail
    \/ Extract_CallOCR
    \/ Scrub
    \/ Gate
    \/ CallReasoning
    \/ POST_ExtractionFailed
    \/ POST_Confirmation

Next ==
    \/ \E req \in Requests : POST_Unauthorized(req)
    \/ \E req \in Requests : POST_BodyUnreadable(req)
    \/ \E req \in Requests : POST_InvalidPayload(req)
    \/ \E req \in Requests : POST_File(req)
    \/ \E req \in Requests : POST_Chat(req)
    \/ \E reply \in ChatReplies : Chat_Respond(reply)
    \/ Chat_Fail
    \/ \E text \in RawTexts : OCR_Respond(text)
    \/ \E message \in ExternalErrorTexts : OCR_Fail(message)
    \/ \E text \in ResponseTexts : Reasoning_Respond(text)
    \/ \E message \in ExternalErrorTexts : Reasoning_Fail(message)
    \/ ServerStep

Spec == Init /\ [][Next]_vars

\* the places at which the server's own code is the next to run
ServerPc == {"extract", "scrub", "gate", "reason", "extracted"}

\* the places such a step leads to
ServerPcAfter == {"awaitOCR", "scrub", "gate", "reason", "awaitReasoning", "extracted", "done"}

\* A step of Next that leaves a place of ServerPc is a ServerStep, and at
\* every such place a ServerStep is enabled.
ServerAdvance == pc \in ServerPc /\ pc' \in ServerPcAfter /\ pc' # pc

\* The server's own steps are taken when they can be: the runtime runs a
\* continuation that is ready.  Nothing makes an external service answer, and
\* the code sets no timer.
FairSpec == Spec /\ WF_pc(ServerAdvance)

(***************************************************************************)
(* The functions called by themselves: one call, made on an input drawn    *)
(* from a set of inputs, and what it returns.                              *)
(***************************************************************************)
\* "AB1234567": a passport number
PASSPORT_NO ==
    <<"A", "B", "1", "2", "3", "4", "5", "6", "7">>

\* "784-1990-1234567-1": an Emirates ID
EMIRATES_ID ==
    <<"7", "8", "4", "-", "1", "9", "9", "0", "-", "1", "2", "3", "4", "5",
      "6", "7", "-", "1">>

\* "js@acme.ae"
EMAIL ==
    <<"j", "s", "@", "a", "c", "m", "e", ".", "a", "e">>

\* "0501234567": a UAE mobile number
MOBILE ==
    <<"0", "5", "0", "1", "2", "3", "4", "5", "6", "7">>

\* "Name: Ali", with nothing after the name
LABELED_NAME ==
    <<"N", "a", "m", "e", ":", " ", "A", "l", "i">>

\* "Name: John Smith, IBAN: AE070331234567890123456, salary AED 15,000"
SLIP_EXAMPLE ==
    FRAG_NAME \o FRAG_IBAN_LABELED \o SubSeq(FRAG_SALARY, 1, Len(FRAG_SALARY) - 1)

\* the pieces of a text given to redactPII: each identifier followed by a
\* space, the pieces of the OCR texts, and a labelled name that runs into
\* what follows it
ScrubPieces ==
    {IBAN_AE \o <<" ">>, IBAN_AE_HYPHENS \o <<" ">>, IBAN_DE \o <<" ">>,
     PASSPORT_NO \o <<" ">>, EMIRATES_ID \o <<" ">>, EMAIL \o <<" ">>,
     MOBILE \o <<" ">>, FRAG_NAME, FRAG_IBAN_LABELED, FRAG_SALARY, LABELED_NAME}

\* how many pieces a text given to redactPII or to the gate has at most
MaxPieces == 2

\* "Name: ", the label of FRAG_NAME
NAME_LABEL == SubSeq(FRAG_NAME, 1, 6)

\* "Mr. John Smith"
HONORIFIC_NAME ==
    <<"M", "r", ".", " ", "J", "o", "h", "n", " ", "S", "m", "i", "t", "h">>

\* a name with its honorific, and the label of a name right before something
\* an earlier pass replaces
LabelledPieces ==
    {HONORIFIC_NAME}
        \cup {NAME_LABEL \o p :
                p \in {IBAN_AE, PASSPORT_NO, EMIRATES_ID, EMAIL, MOBILE,
                       HONORIFIC_NAME}}

\* the arguments of redactPII
ScrubTexts ==
    Concatenations(ScrubPieces, MaxPieces)
        \cup {NULL, UNDEFINED, SLIP_EXAMPLE} \cup LabelledPieces

\* the placeholders of redactPII, each followed by a space
PlaceholderPieces ==
    {r \o <<" ">> :
        r \in {REDACTED_IBAN, REDACTED_PASSPORT, REDACTED_EMIRATES_ID,
               REDACTED_EMAIL, REDACTED_PHONE, REDACTED_NAME, NAME_REDACTED_NAME}}

\* the texts the patterns of the gate are tried on
GateTexts ==
    Concatenations(ScrubPieces \cup PlaceholderPieces \cup {FRAG_SALARY}, MaxPieces)

\* redactPII(text)
Call_redactPII(text) ==
    /\ call = NoCall
    /\ call' = [fn |-> "redactPII", text |-> text]
    /\ ret' = [fn |-> "redactPII", text |-> redactPII(text)]
    /\ UNCHANGED <<pc, pipelineVars, routeVars, invocations, logs, besideVars>>

\* lines 144-151 on a text: piiPatterns.some(pattern => pattern.test(text))
Call_piiPatternsSome(text) ==
    /\ call = NoCall
    /\ call' = [fn |-> "piiPatterns.some", text |-> text]
    /\ ret' = [fn |-> "piiPatterns.some", hasPII |-> piiPatternsSome(text)]
    /\ UNCHANGED <<pc, pipelineVars, routeVars, invocations, logs, besideVars>>

(***************************************************************************)
(* enforceLTV (emi.js 13-24). Amounts are whole numbers; prices are whole  *)
(* hundreds, so that the 80% and the 7% of a price are whole numbers too   *)
(* and the arithmetic of the model is that of the code without rounding.   *)
(***************************************************************************)
\* the largest price, in hundreds
MaxPrice == 3

\* the largest down payment, in tens
MaxDown == 35

\* price: absent, negative, zero or positive
Prices == {Undefined} \cup {Num(100 * k) : k \in (-1)..MaxPrice}

\* downPayment: absent, negative, zero, below, at and above 20% of a price,
\* above the price
DownPayments == {Undefined} \cup {Num(10 * k) : k \in (-1)..MaxDown}

\* Number(x || 0) of a number or undefined
NumberOrZero(x) == OrElse(x, Num(0)).value

\* p * 0.8 and p * 0.07: n hundredths of p
Percent(p, n) == (p * n) \div 100

Max(a, b) == IF a >= b THEN a ELSE b

ISSUE_INVALID_PRICE == "invalid_price"

ISSUE_ADJUSTED == "down_payment_adjusted_to_meet_ltv"

\* the loan that is left when the down payment exceeds the price is not
\* raised to zero
enforceLTV_NoFloor(price, downPayment) ==
    LET p == NumberOrZero(price)
        d == NumberOrZero(downPayment)
        maxLoan == Percent(p, 80)
        impliedDownPayment == p - maxLoan
        effectiveDown == Max(d, impliedDownPayment)
    IN IF p <= 0
       THEN [loanAmount |-> 0, issues |-> <<ISSUE_INVALID_PRICE>>,
             upfrontCostEstimate |-> Undefined]
       ELSE [loanAmount |-> p - effectiveDown,
             issues |-> IF d < impliedDownPayment THEN <<ISSUE_ADJUSTED>> ELSE <<>>,
             upfrontCostEstimate |-> Num(Percent(p, 7))]

\* a price of zero is taken as a price
enforceLTV_ZeroPriceValid(price, downPayment) ==
    LET p == NumberOrZero(price)
        d == NumberOrZero(downPayment)
        maxLoan == Percent(p, 80)
        impliedDownPayment == p - maxLoan
        effectiveDown == Max(d, impliedDownPayment)
    IN IF p < 0
       THEN [loanAmount |-> 0, issues |-> <<ISSUE_INVALID_PRICE>>,
             upfrontCostEstimate |-> Undefined]
       ELSE [loanAmount |-> Max(0, p - effectiveDown),
             issues |-> IF d < impliedDownPayment THEN <<ISSUE_ADJUSTED>> ELSE <<>>,
             upfrontCostEstimate |-> Num(Percent(p, 7))]

enforceLTV(price, downPayment) ==
    LET p == NumberOrZero(price)
        d == NumberOrZero(downPayment)
        maxLoan == Percent(p, 80)
        impliedDownPayment == p - maxLoan
        effectiveDown == Max(d, impliedDownPayment)
    IN IF p <= 0
       THEN [loanAmount |-> 0, issues |-> <<ISSUE_INVALID_PRICE>>,
             upfrontCostEstimate |-> Undefined]
       ELSE [loanAmount |-> Max(0, p - effectiveDown),
             issues |-> IF d < impliedDownPayment THEN <<ISSUE_ADJUSTED>> ELSE <<>>,
             upfrontCostEstimate |-> Num(Percent(p, 7))]

Call_enforceLTV(price, downPayment) ==
    /\ call = NoCall
    /\ call' = [fn |-> "enforceLTV", price |-> price, downPayment |-> downPayment]
    /\ ret' = [fn |-> "enforceLTV", ltv |-> enforceLTV(price, downPayment)]
    /\ UNCHANGED <<pc, pipelineVars, routeVars, invocations, logs, besideVars>>

(***************************************************************************)
(* calculateEMI and its clamps (emi.js 1-11, 26-40). An annual rate is a   *)
(* whole number of thousandths (45 is 0.045). The loans of the model are   *)
(* multiples of 12000, so that the first month's interest, P * rate / 12,  *)
(* is a whole number. The instalment itself, a power of a fraction, is     *)
(* kept as the three numbers the formula of line 36 is applied to.         *)
(***************************************************************************)
\* 25: the default and the ceiling of the tenure, in years
TENURE_DEFAULT == 25

\* 0.045, in thousandths
RATE_DEFAULT == 45

\* the largest loan, in units of 12000
MaxLoan == 2

\* the longest tenure asked for, in years beyond the ceiling
MaxTenureOver == 5

Min(a, b) == IF a <= b THEN a ELSE b

\* a tenure that is not capped
clampTenureYears_NoCeiling(tenureYears) ==
    LET t == OrElse(tenureYears, Num(TENURE_DEFAULT)).value
    IN IF t <= 0 THEN TENURE_DEFAULT ELSE t

clampTenureYears(tenureYears) ==
    LET t == OrElse(tenureYears, Num(TENURE_DEFAULT)).value
    IN IF t <= 0 THEN TENURE_DEFAULT ELSE Min(t, TENURE_DEFAULT)

clampRateAnnual(rateAnnual) ==
    LET r == OrElse(rateAnnual, Num(RATE_DEFAULT)).value
    IN IF r <= 0 THEN RATE_DEFAULT ELSE r

\* (P * r * pow) / (pow - 1) with pow = (1 + r) ** n, r = rate / 12: the
\* value of the formula, named by its arguments
Amortized(P, rAnnual, n) == [loan |-> P, rate |-> rAnnual, months |-> n]

\* the 0 that line 33 returns as monthlyEmi
NoInstalment == Amortized(0, 0, 0)

calculateEMI(loanAmount, annualRate, tenureYears) ==
    LET P == NumberOrZero(loanAmount)
        rAnnual == clampRateAnnual(annualRate)
        nYears == clampTenureYears(tenureYears)
        n == nYears * 12
        monthlyInterestPortion == (P * rAnnual) \div 12000
    IN IF P <= 0 \/ rAnnual <= 0 \/ n <= 0
       THEN [monthlyEmi |-> NoInstalment, monthlyInterestPortion |-> 0]
       ELSE [monthlyEmi |-> Amortized(P, rAnnual, n),
             monthlyInterestPortion |-> monthlyInterestPortion]

\* loanAmount: absent, negative, zero, positive
Loans == {Undefined} \cup {Num(12000 * k) : k \in (-1)..MaxLoan}

\* annualRate: absent, negative, zero, 4.5%, 5%
Rates == {Undefined, Num(-10), Num(0), Num(RATE_DEFAULT), Num(50)}

\* tenureYears: absent, negative, zero, below, at and above the ceiling
Tenures ==
    {Undefined, Num(-5), Num(0), Num(1), Num(20)}
        \cup {Num(TENURE_DEFAULT + k) : k \in 0..MaxTenureOver}

Call_calculateEMI(loanAmount, annualRate, tenureYears) ==
    /\ call = NoCall
    /\ call' = [fn |-> "calculateEMI", loanAmount |-> loanAmount,
                annualRate |-> annualRate, tenureYears |-> tenureYears]
    /\ ret' = [fn |-> "calculateEMI",
               emi |-> calculateEMI(loanAmount, annualRate, tenureYears)]
    /\ UNCHANGED <<pc, pipelineVars, routeVars, invocations, logs, besideVars>>

(***************************************************************************)
(* buyVsRentRecommendation (buyVsRent.js 1-28)                             *)
(***************************************************************************)
\* the longest stay, in years
MaxStay == 7

\* the largest monthly amount
MaxMonthly == 3

\* a mid-term stay that buys when the two monthly costs are equal
buyVsRentRecommendation_BuyOnTie(stayYears, monthlyRent, monthlyInterestPortion, maintenanceEstimate) ==
    LET stay == NumberOrZero(stayYears)
        rent == NumberOrZero(monthlyRent)
        interest == NumberOrZero(monthlyInterestPortion)
        maint == NumberOrZero(maintenanceEstimate)
        buyMonthly == interest + maint
    IN IF stay < 3
       THEN [recommendation |-> "rent",
             rationale |-> "Short stay (<3y): transaction fees outweigh benefits."]
       ELSE IF stay > 5
       THEN [recommendation |-> "buy",
             rationale |-> "Long stay (>5y): equity buildup likely beats rent."]
       ELSE IF buyMonthly <= rent
       THEN [recommendation |-> "buy",
             rationale |-> "Mid-term: mortgage interest + maintenance < rent. Buying may be better."]
       ELSE [recommendation |-> "rent",
             rationale |-> "Mid-term: rent costs lower than monthly interest + maintenance. Renting may be better."]

buyVsRentRecommendation(stayYears, monthlyRent, monthlyInterestPortion, maintenanceEstimate) ==
    LET stay == NumberOrZero(stayYears)
        rent == NumberOrZero(monthlyRent)
        interest == NumberOrZero(monthlyInterestPortion)
        maint == NumberOrZero(maintenanceEstimate)
        buyMonthly == interest + maint
    IN IF stay < 3
       THEN [recommendation |-> "rent",
             rationale |-> "Short stay (<3y): transaction fees outweigh benefits."]
       ELSE IF stay > 5
       THEN [recommendation |-> "buy",
             rationale |-> "Long stay (>5y): equity buildup likely beats rent."]
       ELSE IF buyMonthly < rent
       THEN [recommendation |-> "buy",
             rationale |-> "Mid-term: mortgage interest + maintenance < rent. Buying may be better."]
       ELSE [recommendation |-> "rent",
             rationale |-> "Mid-term: rent costs lower than monthly interest + maintenance. Renting may be better."]

\* stayYears: absent or a number of years
Stays == {Undefined} \cup {Num(k) : k \in 0..MaxStay}

\* monthlyRent, monthlyInterestPortion, maintenanceEstimate: absent or an
\* amount
Monthlies == {Undefined} \cup {Num(k) : k \in 0..MaxMonthly}

Call_buyVsRentRecommendation(stayYears, monthlyRent, monthlyInterestPortion, maintenanceEstimate) ==
    /\ call = NoCall
    /\ call' = [fn |-> "buyVsRentRecommendation", stayYears |-> stayYears,
                monthlyRent |-> monthlyRent,
                monthlyInterestPortion |-> monthlyInterestPortion,
                maintenanceEstimate |-> maintenanceEstimate]
    /\ ret' = [fn |-> "buyVsRentRecommendation",
               advice |-> buyVsRentRecommendation(stayYears, monthlyRent,
                              monthlyInterestPortion, maintenanceEstimate)]
    /\ UNCHANGED <<pc, pipelineVars, routeVars, invocations, logs, besideVars>>

(***************************************************************************)
(* runEmiTool (agent.js 6-11, 40-47) and the calculate_mortgage tool        *)
(* (visionExtractor.js 481-520). The prices of the tool are multiples of   *)
(* 4000 and its down payments multiples of 800, so that the loan is a      *)
(* multiple of 800 and a month's interest at 4.5% a whole number.          *)
(***************************************************************************)
ERROR_INVALID_INPUT == "invalid_input"

\* EmiInput.safeParse(input).success
EmiInputValid(price, downPayment, annualRate, tenureYears) ==
    /\ price.defined /\ price.value > 0
    /\ downPayment.defined /\ downPayment.value >= 0
    /\ annualRate.defined => annualRate.value >= 0
    /\ tenureYears.defined =>
          (tenureYears.value >= 1 /\ tenureYears.value <= TENURE_DEFAULT)

\* a field of the result that the object does not have
NoField == [defined |-> FALSE, value |-> NoInstalment]

\* runEmiTool({ price, downPayment, annualRate, tenureYears }): the object
\* it resolves to, a field the object lacks being undefined
runEmiTool(price, downPayment, annualRate, tenureYears) ==
    IF ~EmiInputValid(price, downPayment, annualRate, tenureYears)
    THEN [error |-> ERROR_INVALID_INPUT, loanAmount |-> Undefined,
          upfrontCostEstimate |-> Undefined, issues |-> <<>>,
          monthlyEmi |-> NoField, monthlyInterestPortion |-> Undefined]
    ELSE LET ltv == enforceLTV(price, downPayment)
             emi == calculateEMI(Num(ltv.loanAmount),
                                 OrElse(annualRate, Num(RATE_DEFAULT)),
                                 IF tenureYears.defined
                                 THEN tenureYears ELSE Num(TENURE_DEFAULT))
         IN [error |-> "", loanAmount |-> Num(ltv.loanAmount),
             upfrontCostEstimate |-> ltv.upfrontCostEstimate,
             issues |-> ltv.issues,
             monthlyEmi |-> [defined |-> TRUE, value |-> emi.monthlyEmi],
             monthlyInterestPortion |-> Num(emi.monthlyInterestPortion)]

\* the function of the calculate_mortgage tool: what it stringifies
calculateMortgageTool(stayYears, price, downPayment, rent, tenureYears) ==
    LET tenure == IF tenureYears.defined THEN tenureYears ELSE Num(TENURE_DEFAULT)
        emiResult == runEmiTool(price, downPayment, Num(RATE_DEFAULT), tenure)
        recommendation ==
            buyVsRentRecommendation(stayYears, rent,
                                    emiResult.monthlyInterestPortion, Undefined)
    IN [emi |-> emiResult,
        recommendation |-> recommendation,
        inputs |-> [stayYears |-> stayYears, price |-> price,
                    downPayment |-> downPayment, rent |-> rent,
                    tenureYears |-> tenure]]

\* price of the tool: negative, zero, positive
ToolPrices == {Num(4000 * k) : k \in (-1)..MaxPrice}

\* downPayment of the tool: negative, zero, the 20% of the smallest price,
\* more than that
ToolDownPayments == {Num(800 * k) : k \in (-1)..2}

\* tenureYears of the tool: not given, zero, in range, at the ceiling, above
ToolTenures ==
    {Undefined, Num(0), Num(20), Num(TENURE_DEFAULT), Num(TENURE_DEFAULT + MaxTenureOver)}

\* stayYears of the tool: short, in between, long
ToolStays == {Num(2), Num(4), Num(6)}

\* rent of the tool: none, below, at and above the interest of the smallest
\* loan
ToolRents == {Num(0), Num(10), Num(12), Num(20)}

Call_calculateMortgageTool(stayYears, price, downPayment, rent, tenureYears) ==
    /\ call = NoCall
    /\ call' = [fn |-> "calculate_mortgage", stayYears |-> stayYears,
                price |-> price, downPayment |-> downPayment, rent |-> rent,
                tenureYears |-> tenureYears]
    /\ ret' = [fn |-> "calculate_mortgage",
               mortgage |-> calculateMortgageTool(stayYears, price, downPayment,
                                                  rent, tenureYears)]
    /\ UNCHANGED <<pc, pipelineVars, routeVars, invocations, logs, besideVars>>

PureNext ==
    \/ \E stayYears \in ToolStays, price \in ToolPrices,
          downPayment \in ToolDownPayments, rent \in ToolRents,
          tenureYears \in ToolTenures :
          Call_calculateMortgageTool(stayYears, price, downPayment, rent,
                                     tenureYears)
    \/ \E text \in ScrubTexts : Call_redactPII(text)
    \/ \E text \in GateTexts : Call_piiPatternsSome(text)
    \/ \E price \in Prices, downPayment \in DownPayments :
          Call_enforceLTV(price, downPayment)
    \/ \E loanAmount \in Loans, annualRate \in Rates, tenureYears \in Tenures :
          Call_calculateEMI(loanAmount, annualRate, tenureYears)
    \/ \E stayYears \in Stays, monthlyRent \in Monthlies,
          monthlyInterestPortion \in Monthlies, maintenanceEstimate \in Monthlies :
          Call_buyVsRentRecommendation(stayYears, monthlyRent,
                                       monthlyInterestPortion, maintenanceEstimate)

\* no request is being handled
PureInit == Init /\ apiKeyConfigured = TRUE

PureSpec == PureInit /\ [][PureNext]_vars

(***************************************************************************)
(* Two calls of extractSalaryFromDocument at the same time                 *)
(* (visionExtractor.js 123-236). The function keeps everything in consts   *)
(* of the call; process.env is read and never written. A call can be       *)
(* overtaken by the other one between any two of its stages.               *)
(***************************************************************************)
\* what the OCR service can answer to a call
OcrAnswers ==
    {[ok |-> TRUE, text |-> t, message |-> ""] : t \in Fragments}
        \cup {[ok |-> FALSE, text |-> <<>>, message |-> m] : m \in ExternalErrorTexts}

\* what the reasoning model can answer to a call
ReasoningAnswers ==
    {[ok |-> TRUE, text |-> t, message |-> ""] : t \in Chunks}
        \cup {[ok |-> FALSE, text |-> <<>>, message |-> m] : m \in ExternalErrorTexts}

\* 123-134: the call starts; without the key or without file data it fails
\* at once, otherwise the document goes to the OCR service
Invoke(i, fileData) ==
    /\ invocations[i].pc = "idle"
    /\ IF ~apiKeyConfigured
       THEN invocations' = [invocations EXCEPT
                ![i].pc = "returned", ![i].fileData = fileData,
                ![i].result = CatchResult([at |-> "config", message |-> MSG_NO_KEY])]
       ELSE IF ~fileData
       THEN invocations' = [invocations EXCEPT
                ![i].pc = "returned", ![i].fileData = fileData,
                ![i].result = CatchResult([at |-> "buffer",
                                           message |-> MSG_BUFFER_TYPE_ERROR])]
       ELSE invocations' = [invocations EXCEPT
                ![i].pc = "awaitOCR", ![i].fileData = fileData]
    /\ UNCHANGED <<pc, pipelineVars, routeVars, call, ret, logs, besideVars>>

\* 134: the OCR service answers the call i: rawText, or the throw caught at 229
OCR_Answers(i, answer) ==
    /\ invocations[i].pc = "awaitOCR"
    /\ IF answer.ok
       THEN invocations' = [invocations EXCEPT
                ![i].pc = "scrub", ![i].ocr = answer, ![i].rawText = answer.text]
       ELSE invocations' = [invocations EXCEPT
                ![i].pc = "returned", ![i].ocr = answer,
                ![i].result = CatchResult([at |-> "ocr", message |-> answer.message])]
    /\ UNCHANGED <<pc, pipelineVars, routeVars, call, ret, logs, besideVars>>

\* a scrub stage that reads the text the service answered last, to whichever
\* call: a rawText kept outside the function
ScrubStage_SharedRawText(i) ==
    /\ invocations[i].pc = "scrub"
    /\ LET other == CHOOSE j \in Invocations : j # i
           text == IF invocations[other].ocr.ok
                   THEN invocations[other].rawText
                   ELSE invocations[i].rawText
       IN invocations' = [invocations EXCEPT
              ![i].pc = "gate", ![i].scrubbedText = redactPII(text)]
    /\ UNCHANGED <<pc, pipelineVars, routeVars, call, ret, logs, besideVars>>

\* 139: const scrubbedText = redactPII(rawText), both consts of the call
ScrubStage(i) ==
    /\ invocations[i].pc = "scrub"
    /\ invocations' = [invocations EXCEPT
           ![i].pc = "gate",
           ![i].scrubbedText = redactPII(invocations[i].rawText)]
    /\ UNCHANGED <<pc, pipelineVars, routeVars, call, ret, logs, besideVars>>

\* 144-155: the gate on the call's own scrubbedText
GateStage(i) ==
    /\ invocations[i].pc = "gate"
    /\ LET found == piiPatternsSome(invocations[i].scrubbedText)
       IN IF GateBlocks(found)
          THEN invocations' = [invocations EXCEPT
                   ![i].pc = "returned", ![i].hasPII = found,
                   ![i].result = CatchResult([at |-> "gate", message |-> MSG_PII])]
          ELSE invocations' = [invocations EXCEPT
                   ![i].pc = "awaitReasoning", ![i].hasPII = found]
    /\ UNCHANGED <<pc, pipelineVars, routeVars, call, ret, logs, besideVars>>

\* 201-235: the reasoning model answers the call i: the answer is parsed
\* and the call returns, or the throw is caught at 229
Reasoning_Answers(i, answer) ==
    /\ invocations[i].pc = "awaitReasoning"
    /\ invocations' = [invocations EXCEPT
           ![i].pc = "returned", ![i].reasoning = answer,
           ![i].result =
               IF answer.ok
               THEN ParseModelResponse(answer.text)[3]
               ELSE CatchResult([at |-> "reasoning", message |-> answer.message])]
    /\ UNCHANGED <<pc, pipelineVars, routeVars, call, ret, logs, besideVars>>

ConcurrentNext ==
    \E i \in Invocations :
        \/ \E fileData \in BOOLEAN : Invoke(i, fileData)
        \/ \E answer \in OcrAnswers : OCR_Answers(i, answer)
        \/ ScrubStage(i)
        \/ GateStage(i)
        \/ \E answer \in ReasoningAnswers : Reasoning_Answers(i, answer)

ConcurrentSpec == Init /\ [][ConcurrentNext]_vars

\* extractSalaryFromDocument run alone, from start to return, on a file and
\* on what the two services answer to it
extractSalaryFromDocument(fileData, ocr, reasoning) ==
    IF ~apiKeyConfigured
    THEN CatchResult([at |-> "config", message |-> MSG_NO_KEY])
    ELSE IF ~fileData
    THEN CatchResult([at |-> "buffer", message |-> MSG_BUFFER_TYPE_ERROR])
    ELSE IF ~ocr.ok
    THEN CatchResult([at |-> "ocr", message |-> ocr.message])
    ELSE IF GateBlocks(piiPatternsSome(redactPII(ocr.text)))
    THEN CatchResult([at |-> "gate", message |-> MSG_PII])
    ELSE IF ~reasoning.ok
    THEN CatchResult([at |-> "reasoning", message |-> reasoning.message])
    ELSE ParseModelResponse(reasoning.text)[3]

(***************************************************************************)
(* connectDB (mongodb.js, visionExtractor.js 378-413). cached.conn and     *)
(* cached.promise are 0 for null, else the number of the call of           *)
(* mongoose.connect that made them. A call of connectDB runs up to its     *)
(* await; when the promise it awaits settles, the continuations of the     *)
(* calls awaiting it are queued in the order of their awaits and run       *)
(* before anything else does: a route handler reaches its call of          *)
(* connectDB from a task of its own, which starts when no continuation is  *)
(* queued.                                                                 *)
(***************************************************************************)
\* how many times mongoose.connect is called at most
MaxAttempts == 3

\* the calls of mongoose.connect that have not settled
PendingAttempts ==
    {k \in DOMAIN connects.attempts : connects.attempts[k] = "pending"}

\* the calls of mongoose.connect that succeeded
ResolvedAttempts ==
    {k \in DOMAIN connects.attempts : connects.attempts[k] = "resolved"}

\* the call c, begun now: what had become of the attempts so far
Begun(c, pcAfter, awaits, started, result) ==
    [pc |-> pcAfter, awaits |-> awaits, started |-> started, result |-> result,
     afterSuccess |-> ResolvedAttempts # {},
     afterFailure |-> /\ connects.attempts # <<>>
                      /\ \A k \in DOMAIN connects.attempts :
                            connects.attempts[k] = "rejected"]

\* lines 385-405: connectDB() up to its return of the cached connection or
\* to its await
connectDB_Call(c) ==
    /\ connects.calls[c].pc \in {"idle", "returned", "threw"}
    /\ connects.jobs = <<>>
    /\ IF cached.conn # 0
       THEN /\ connects' =
                 [connects EXCEPT
                    !.calls[c] = Begun(c, "returned", 0, FALSE, cached.conn)]
            /\ UNCHANGED cached
       ELSE IF cached.promise = 0
       THEN /\ Len(connects.attempts) < MaxAttempts
            /\ cached' = [cached EXCEPT !.promise = Len(connects.attempts) + 1]
            /\ connects' =
                 [connects EXCEPT
                    !.attempts = Append(@, "pending"),
                    !.calls[c] = Begun(c, "awaiting", Len(connects.attempts) + 1,
                                       TRUE, 0),
                    !.waiting = Append(@, c)]
       ELSE /\ UNCHANGED cached
            /\ connects' =
                 [connects EXCEPT
                    !.calls[c] = Begun(c, "awaiting", cached.promise, FALSE, 0),
                    !.waiting = IF connects.attempts[cached.promise] = "pending"
                                THEN Append(@, c) ELSE @,
                    !.jobs = IF connects.attempts[cached.promise] = "pending"
                             THEN @ ELSE Append(@, c)]
    /\ UNCHANGED <<pc, pipelineVars, routeVars, call, ret, invocations, logs, browserVars>>

\* the promise of attempt k settles: the continuations of the calls that
\* await it are queued
Settle(k, outcome) ==
    /\ k \in PendingAttempts
    /\ connects.jobs = <<>>
    /\ connects' =
          [connects EXCEPT
             !.attempts[k] = outcome,
             !.jobs = SelectSeq(connects.waiting,
                                LAMBDA c : connects.calls[c].awaits = k),
             !.waiting = SelectSeq(connects.waiting,
                                   LAMBDA c : connects.calls[c].awaits # k)]
    /\ UNCHANGED cached
    /\ UNCHANGED <<pc, pipelineVars, routeVars, call, ret, invocations, logs, browserVars>>

\* 393-400: mongoose.connect succeeds
mongoose_Connects(k) == Settle(k, "resolved")

\* mongoose.connect fails
mongoose_ConnectFails(k) == Settle(k, "rejected")

\* the catch of line 407 without its reset of cached.promise
connectDB_Resume_KeepsPromise ==
    /\ connects.jobs # <<>>
    /\ LET c == Head(connects.jobs)
           k == connects.calls[c].awaits
       IN IF connects.attempts[k] = "resolved"
          THEN /\ cached' = [cached EXCEPT !.conn = k]
               /\ connects' =
                    [connects EXCEPT !.jobs = Tail(@),
                                     !.calls[c].pc = "returned",
                                     !.calls[c].result = k]
          ELSE /\ UNCHANGED cached
               /\ connects' =
                    [connects EXCEPT !.jobs = Tail(@), !.calls[c].pc = "threw"]
    /\ UNCHANGED <<pc, pipelineVars, routeVars, call, ret, invocations, logs, browserVars>>

\* lines 405-412: the continuation of the first call in the queue, after
\* its await
connectDB_Resume ==
    /\ connects.jobs # <<>>
    /\ LET c == Head(connects.jobs)
           k == connects.calls[c].awaits
       IN IF connects.attempts[k] = "resolved"
          THEN /\ cached' = [cached EXCEPT !.conn = k]
               /\ connects' =
                    [connects EXCEPT !.jobs = Tail(@),
                                     !.calls[c].pc = "returned",
                                     !.calls[c].result = k]
          ELSE /\ cached' = [cached EXCEPT !.promise = 0]
               /\ connects' =
                    [connects EXCEPT !.jobs = Tail(@), !.calls[c].pc = "threw"]
    /\ UNCHANGED <<pc, pipelineVars, routeVars, call, ret, invocations, logs, browserVars>>

ConnectNext ==
    \/ \E c \in Callers : connectDB_Call(c)
    \/ \E k \in 1..MaxAttempts : mongoose_Connects(k)
    \/ \E k \in 1..MaxAttempts : mongoose_ConnectFails(k)
    \/ connectDB_Resume

ConnectSpec == Init /\ [][ConnectNext]_vars

(***************************************************************************)
(* The browser: the Chat component (Chat.jsx 51-110, 169-193), the pages'  *)
(* effects (chat/page.js 8-13, login page 13-18) and the middleware that   *)
(* answers each navigation (middleware.js 16-59). A response of /api/chat  *)
(* can arrive in any order with the others. The token of the cookie is     *)
(* valid or there is none.                                                 *)
(***************************************************************************)
\* how many messages are sent at most while the component is mounted
MaxRequests == 3

MSG_THINKING == "..."

MSG_NO_RESPONSE == "(No response)"

MSG_OOPS == "Oops, something went wrong hitting the backend."

\* the content of data.message, when there is one
MSG_ANSWER == "Renting is cheaper for a short stay."

\* input.trim(): nothing, or a text
InputTexts == {"", "Should I buy or rent?"}

\* what the browser leaves alone
serverVars == <<pc, pipelineVars, routeVars, call, ret, invocations, logs, dbVars>>

\* 51-65: sendMessage, called by the submit button, which `sending` disables
\* (191), or by the Enter key (172-177)
sendMessage(text, by) ==
    /\ browser.location = At("/chat", "shown")
    /\ by = "button" => ~chat.sending
    /\ IF text = ""
       THEN UNCHANGED chat
       ELSE /\ chat.sent < MaxRequests
            /\ chat' =
                 [messages |->
                     chat.messages \o
                         <<[role |-> "user", content |-> text,
                            request |-> chat.sent + 1, slot |-> 0],
                           [role |-> "assistant", content |-> MSG_THINKING,
                            request |-> chat.sent + 1, slot |-> chat.sent + 1]>>,
                  sending |-> TRUE,
                  fetches |-> chat.fetches \cup {chat.sent + 1},
                  sent |-> chat.sent + 1]
    /\ UNCHANGED browser
    /\ UNCHANGED serverVars

\* 74-78, 83-90: updated[updated.length - 1] = msg
ReplaceLast(messages, content, id) ==
    [messages EXCEPT ![Len(messages)] =
        [role |-> "assistant", content |-> content, request |-> id, slot |-> @.slot]]

\* 69-81, 94: the response of request id arrives
Fetch_Respond(id, content) ==
    /\ id \in chat.fetches
    /\ chat' = [chat EXCEPT !.messages = ReplaceLast(@, content, id),
                            !.sending = FALSE,
                            !.fetches = @ \ {id}]
    /\ UNCHANGED browser
    /\ UNCHANGED serverVars

\* 82-94: the request id fails
Fetch_Fail(id) ==
    /\ id \in chat.fetches
    /\ chat' = [chat EXCEPT !.messages = ReplaceLast(@, MSG_OOPS, id),
                            !.sending = FALSE,
                            !.fetches = @ \ {id}]
    /\ UNCHANGED browser
    /\ UNCHANGED serverVars

\* 97-99: the Logout button; the request to /api/auth/logout is sent
handleLogout ==
    /\ browser.location = At("/chat", "shown")
    /\ browser.logout = "idle"
    /\ browser' = [browser EXCEPT !.logout = "awaiting"]
    /\ UNCHANGED chat
    /\ UNCHANGED serverVars

\* 99-102 and logout/route.js 12-18: the response clears the cookie; the
\* token of localStorage is removed and the router is sent to /login, which
\* unmounts the component
Logout_Respond ==
    /\ browser.logout = "awaiting"
    /\ browser' = [location |-> At("/login", "asked"), cookieToken |-> FALSE,
                   localToken |-> FALSE, logout |-> "done"]
    /\ chat' = NoChat
    /\ UNCHANGED serverVars

\* 103-108: the request fails; the cookie is what it was
Logout_Fail ==
    /\ browser.logout = "awaiting"
    /\ browser' = [browser EXCEPT !.location = At("/login", "asked"),
                                  !.localToken = FALSE,
                                  !.logout = "done"]
    /\ chat' = NoChat
    /\ UNCHANGED serverVars

\* middleware.js 16-59 on /login and on /chat
middleware ==
    /\ browser.location.stage = "asked"
    /\ browser' =
          [browser EXCEPT !.location =
              IF @.path = "/login"
              THEN IF browser.cookieToken
                   THEN At("/chat", "asked") ELSE At("/login", "rendered")
              ELSE IF ~browser.cookieToken
                   THEN At("/login", "asked") ELSE At("/chat", "rendered")]
    /\ UNCHANGED chat
    /\ UNCHANGED serverVars

\* chat/page.js 8-13
ChatPage_Effect ==
    /\ browser.location = At("/chat", "rendered")
    /\ browser' =
          [browser EXCEPT !.location =
              IF ~browser.localToken
              THEN At("/login", "asked") ELSE At("/chat", "shown")]
    /\ UNCHANGED chat
    /\ UNCHANGED serverVars

\* login page 13-18
LogIn_Effect ==
    /\ browser.location = At("/login", "rendered")
    /\ browser' =
          [browser EXCEPT !.location =
              IF browser.localToken
              THEN At("/chat", "asked") ELSE At("/login", "shown")]
    /\ UNCHANGED chat
    /\ UNCHANGED serverVars

\* login/route.js 55, 80: the token and its cookie last seven days
Cookie_Expires ==
    /\ browser.cookieToken
    /\ browser' = [browser EXCEPT !.cookieToken = FALSE]
    /\ UNCHANGED chat
    /\ UNCHANGED serverVars

\* the steps of a navigation
Navigate == middleware \/ ChatPage_Effect \/ LogIn_Effect

\* the request of handleLogout comes to its end
LogoutSettles == Logout_Respond \/ Logout_Fail

BrowserNext ==
    \/ \E text \in InputTexts, by \in {"button", "enter"} : sendMessage(text, by)
    \/ \E id \in 1..MaxRequests, content \in {MSG_ANSWER, MSG_NO_RESPONSE} :
          Fetch_Respond(id, content)
    \/ \E id \in 1..MaxRequests : Fetch_Fail(id)
    \/ handleLogout
    \/ LogoutSettles
    \/ Navigate
    \/ Cookie_Expires

BrowserSpec == Init /\ [][BrowserNext]_vars

\* A navigation that has begun goes on and a request that was sent comes to
\* an end. Nothing makes the user type or the cookie lapse.
FairBrowserSpec ==
    BrowserSpec /\ WF_browser(Navigate) /\ WF_browser(LogoutSettles)

(***************************************************************************)
(* Properties                                                              *)
(***************************************************************************)
IsPrefix(p, q) == Len(p) <= Len(q) /\ SubSeq(q, 1, Len(p)) = p

Contains(s, w) == \E i \in 1..(Len(s) - Len(w) + 1) : SubSeq(s, i, i + Len(w) - 1) = w

StageOrder == <<"ocr", "scrub", "gate", "reason">>

\* extractSalaryFromDocument has returned
Returned ==
    \/ pc = "extracted"
    \/ pc = "done" /\ request.file.attached /\ response.status = 200

\* the reasoning model has answered
Answered == Returned /\ reasoningRequests # <<>> /\ thrown.at # "reasoning"

\* C1: the reasoning model is called only after the gate has run on the
\* scrubbed text and passed: whatever is sent to it is the scrubbed text, the
\* gate ran on it before, its verdict was "no PII", and no gate pattern
\* matches what was sent; when the gate blocks, nothing is ever sent.
C1_ReasoningOnlyAfterGatePass ==
    /\ reasoningRequests # <<>> =>
          /\ IsPrefix(<<"ocr", "scrub", "gate">>, stages)
          /\ ~hasPII
          /\ \A k \in 1..Len(reasoningRequests) : reasoningRequests[k] = scrubbedText
          /\ pc = "awaitReasoning" => ~piiPatternsSome(reasoningRequests[1])
    /\ hasPII => reasoningRequests = <<>>
    /\ thrown.at = "gate" => hasPII /\ "reason" \notin {stages[k] : k \in 1..Len(stages)}

\* a text that the scrubber changed has passed the gate and is on its way to
\* the reasoning model
C1_Witness ==
    /\ pc = "awaitReasoning"
    /\ reasoningRequests = <<scrubbedText>>
    /\ scrubbedText # rawText

\* C2: the stages of one request run in the order OCR, scrubber, gate,
\* structured extraction, none of them twice: the stages run so far are a
\* prefix of that order, and each service has been called at most once.
C2_StagesInOrderOnce ==
    /\ IsPrefix(stages, StageOrder)
    /\ Len(ocrRequests) <= 1
    /\ Len(reasoningRequests) <= 1
    /\ Len(ocrRequests) = (IF stages = <<>> THEN 0 ELSE 1)
    /\ Len(reasoningRequests) = (IF Len(stages) = 4 THEN 1 ELSE 0)

\* a request that went through all four stages
C2_Witness == pc = "done" /\ stages = StageOrder

\* the IBANs of the model's documents
KnownIbans == {IBAN_AE, IBAN_AE_HYPHENS, IBAN_DE}

\* C3: if the raw OCR text holds an IBAN that is still in the scrubbed
\* text, the gate blocks: nothing is sent to the reasoning model and the
\* pipeline returns the gate's failure.
C3_UnredactedIbanBlocked ==
    \A iban \in KnownIbans :
        ("scrub" \in {stages[k] : k \in 1..Len(stages)}
            /\ Contains(rawText, iban) /\ Contains(scrubbedText, iban)) =>
            /\ reasoningRequests = <<>>
            /\ Returned => thrown.at = "gate" /\ extractionResult.error = MSG_PII

ReasonTaxonomy ==
    {"ocr_unavailable", "pii_detected_after_scrub", "malformed_model_output",
     "not_a_salary_document"}

\* the reason a returned error value stands for; a value that is none of the
\* pipeline's own stands for itself
ReasonOf(error) ==
    CASE error = MSG_NO_KEY -> "ocr_unavailable"
      [] error = MSG_PII -> "pii_detected_after_scrub"
      [] error \in {MSG_NO_JSON, MSG_JSON_SYNTAX_ERROR} -> "malformed_model_output"
      [] error = "Not a salary document" -> "not_a_salary_document"
      [] OTHER -> error

\* C4: every failure outcome carries one of the four reasons and no other
\* value.
C4_ReasonInTaxonomy ==
    (Returned /\ ~extractionResult.success) =>
        ReasonOf(extractionResult.error) \in ReasonTaxonomy

\* C5: when the credential is absent or the OCR call fails the pipeline
\* fails at once with the reason ocr_unavailable: the failure is returned,
\* the OCR service has been called at most once (not at all without the
\* credential), and neither the scrubber nor the gate nor the reasoning stage
\* has run.
C5_OcrUnavailableFailsFast ==
    thrown.at \in {"config", "ocr"} =>
        /\ Returned
        /\ ~extractionResult.success
        /\ ReasonOf(extractionResult.error) = "ocr_unavailable"
        /\ stages = (IF thrown.at = "ocr" THEN <<"ocr">> ELSE <<>>)
        /\ Len(ocrRequests) = Len(stages)
        /\ reasoningRequests = <<>>
        /\ scrubbedText = <<>>

\* the raw messages of the pipeline's own errors
InternalReasonTexts ==
    {MSG_NO_KEY, MSG_PII, MSG_NO_JSON, MSG_BUFFER_TYPE_ERROR, MSG_JSON_SYNTAX_ERROR}

\* C6: the message a failed document request is answered with holds neither
\* the raw error text of an external service nor the raw internal reason.
C6_UserSafeMessage ==
    (pc = "done" /\ request.file.attached /\ response.status = 200
        /\ ~extractionResult.success) =>
        /\ response.content \notin ExternalErrorTexts
        /\ response.content \notin InternalReasonTexts

\* C7: every document request eventually completes, also when a service
\* never answers.
C7_EventuallyCompletes == (pc = "extract") ~> (pc = "done")

\* the first balanced brace-delimited part of a text, <<>> when there is none
Depth(toks, i, j) ==
    Cardinality({k \in i..j : toks[k] = LBRACE})
        - Cardinality({k \in i..j : toks[k] = RBRACE})

FirstBalanced(toks) ==
    LET opens == {i \in 1..Len(toks) : toks[i] = LBRACE}
    IN IF opens = {}
       THEN <<>>
       ELSE LET i == Least(opens)
                closes == {j \in i..Len(toks) : Depth(toks, i, j) = 0}
            IN IF closes = {} THEN <<>> ELSE SubSeq(toks, i, Least(closes))

HasProse(toks) == \E k \in 1..Len(toks) : toks[k] \in ProseTokens

\* C8: when the response holds prose and its first balanced brace-delimited
\* part is a JSON object, exactly that object is what the pipeline parses.
C8_ParsesFirstBalancedObject ==
    (pc = "extracted" /\ Answered /\ HasProse(responseText)
        /\ JSONParse(FirstBalanced(responseText)).ok) =>
        /\ thrown.at = "none"
        /\ extractedData = JSONParse(FirstBalanced(responseText)).val

\* is some part of the text a JSON object
ContainsJsonObject(toks) ==
    \E i \in 1..Len(toks) : \E j \in i..Len(toks) :
        toks[i] = LBRACE /\ toks[j] = RBRACE /\ JSONParse(SubSeq(toks, i, j)).ok

\* the responses of the model that hold no JSON object
ResponsesWithoutJson == {r \in ResponseTexts : ~ContainsJsonObject(r)}

\* C9: a response that holds no JSON object makes the pipeline return a
\* failure, whose error stands for malformed_model_output, and no data.
C9_NoJsonObjectFails ==
    (Answered /\ responseText \in ResponsesWithoutJson) =>
        /\ ~extractionResult.success
        /\ thrown.at \in {"no_json", "json_parse"}
        /\ ReasonOf(extractionResult.error) = "malformed_model_output"
        /\ extractionResult.data = NoData
        /\ pc = "done" => response.income = Undefined

\* a response of prose only has been answered with the failure
C9_Witness ==
    /\ pc = "done"
    /\ Answered
    /\ responseText # <<>>
    /\ responseText \in ResponsesWithoutJson
    /\ response.content = MSG_NO_JSON

\* C10: when the parsed output carries the not-a-salary-document marker the
\* pipeline returns a failure without data, and the marker's message is the
\* assistant message the caller receives.
C10_NotSalaryMarkerSurfaced ==
    (Returned /\ TruthyString(extractedData, "error")) =>
        /\ ~extractionResult.success
        /\ extractionResult.data = NoData
        /\ extractionResult.error = extractedData["error"]
        /\ pc = "done" =>
              /\ response.status = 200
              /\ response.content = extractedData["error"]
              /\ response.income = Undefined

\* the marker has reached the caller
C10_Witness ==
    /\ pc = "done"
    /\ TruthyString(extractedData, "error")
    /\ response.content = "Not a salary document"

\* well-formed identifiers of the kinds redactPII is to remove
PiiLiterals == {IBAN_AE, IBAN_DE, PASSPORT_NO, EMIRATES_ID, EMAIL, MOBILE}

\* w occurs in s as a word of its own: between the ends of the text, spaces
\* or commas
StandsAlone(s, w) ==
    \E i \in 1..(Len(s) - Len(w) + 1) :
        /\ SubSeq(s, i, i + Len(w) - 1) = w
        /\ i = 1 \/ s[i - 1] \in {" ", ","}
        /\ i + Len(w) > Len(s) \/ s[i + Len(w)] \in {" ", ","}

\* C11: when the text given to redactPII holds a well-formed IBAN, passport
\* number, national ID, email address or local mobile number (here: as a
\* word of its own), that literal does not occur in what redactPII returns.
C11_NoPiiLiteralSurvives ==
    ret.fn = "redactPII" =>
        \A p \in PiiLiterals : StandsAlone(call.text, p) => ~Contains(ret.text, p)

\* C12: redactPII applied to what redactPII returned changes nothing.
C12_RedactIdempotent == ret.fn = "redactPII" => redactPII(ret.text) = ret.text

\* identifiers of the shapes the gate is to block
GateShapes == {IBAN_AE, IBAN_DE, EMIRATES_ID, MOBILE, EMAIL}

\* texts made of placeholders and of words about the salary only
PlaceholderOnlyTexts ==
    Concatenations(PlaceholderPieces \cup {FRAG_SALARY}, MaxPieces) \ {<<>>}

\* C13: the gate blocks every text that holds an unredacted IBAN, national
\* ID, mobile number or email address (here: as a word of its own), and
\* passes every text whose only special content is placeholders.
C13_GateBlocksShapesPassesPlaceholders ==
    ret.fn = "piiPatterns.some" =>
        /\ (\E p \in GateShapes : StandsAlone(call.text, p)) => ret.hasPII = TRUE
        /\ call.text \in PlaceholderOnlyTexts => ret.hasPII = FALSE

\* "John Smith"
JOHN_SMITH == SubSeq(FRAG_NAME, 7, 16)

\* C14: for the text "Name: John Smith, IBAN: AE070331234567890123456,
\* salary AED 15,000" what redactPII returns holds neither "John Smith" nor
\* the IBAN, and no pattern of the gate matches it.
C14_ExampleSlipScrubbedAndPassed ==
    (ret.fn = "redactPII" /\ call.text = SLIP_EXAMPLE) =>
        /\ ~Contains(ret.text, JOHN_SMITH)
        /\ ~Contains(ret.text, IBAN_AE)
        /\ ~piiPatternsSome(ret.text)

\* redactPII has returned for that text, with the label and the rest kept
C14_Witness ==
    /\ call = [fn |-> "redactPII", text |-> SLIP_EXAMPLE]
    /\ ret.fn = "redactPII"
    /\ Contains(ret.text, REDACTED_NAME)
    /\ Contains(ret.text, REDACTED_IBAN)
    /\ Contains(ret.text, SubSeq(FRAG_SALARY, 1, Len(FRAG_SALARY) - 1))

\* C15: redactPII given the empty text, null or undefined returns what it
\* was given and throws nothing.
C15_FalsyTextUnchanged ==
    (ret.fn = "redactPII" /\ call.text \in {<<>>, NULL, UNDEFINED}) =>
        ret.text = call.text

\* redactPII has returned for null
C15_Witness == call = [fn |-> "redactPII", text |-> NULL] /\ ret.fn = "redactPII"

\* the salary figures in the order the route prefers them
IncomeFields == <<"netSalary", "totalGrossSalary", "basicSalary">>

\* the first of the three figures that is present, whatever its value
FirstPresent(salaryData) ==
    IF \E i \in 1..3 : IncomeFields[i] \in DOMAIN salaryData
    THEN Num(salaryData[IncomeFields[
             Least({i \in 1..3 : IncomeFields[i] \in DOMAIN salaryData})]])
    ELSE Undefined

\* the route has answered a document request with a confirmation
ConfirmationSent ==
    /\ pc = "done"
    /\ request.file.attached
    /\ extractionResult.success
    /\ response.status = 200

\* C16: the income of a confirmation is the net salary when it is present,
\* else the total gross salary, else the basic salary; a figure present with
\* the value zero counts as present.
C16_IncomePrecedence ==
    ConfirmationSent => response.income = FirstPresent(extractionResult.data)

\* the six figures the confirmation lists, with the wording of their lines
ConfirmationFields ==
    {[key |-> "basicSalary", label |-> "Basic Salary: "],
     [key |-> "housingAllowance", label |-> "Housing Allowance: "],
     [key |-> "transportationAllowance", label |-> "Transportation Allowance: "],
     [key |-> "totalGrossSalary", label |-> "Total Gross Salary: "],
     [key |-> "deductions", label |-> "Deductions: "],
     [key |-> "netSalary", label |-> "Net Salary: "]}

IsSuffix(w, s) == Len(w) <= Len(s) /\ SubSeq(s, Len(s) - Len(w) + 1, Len(s)) = w

\* C17: the confirmation holds a line for each figure that is present in
\* the salary data, a present zero included, no line for a figure that is
\* absent, and ends with the closing prompt.
C17_LinePerPresentField ==
    ConfirmationSent =>
        /\ \A f \in ConfirmationFields :
              f.key \in DOMAIN extractionResult.data
                  <=> Contains(response.content, f.label)
        /\ IsSuffix(MSG_CLOSING, response.content)

\* C18: whatever the interleaving of the stages of two calls, what a call
\* returns is what it returns when run alone on its own file and on the
\* answers the services gave to it.
C18_ConcurrentOutcomeIsSoloOutcome ==
    \A i \in Invocations :
        invocations[i].pc = "returned" =>
            invocations[i].result =
                extractSalaryFromDocument(invocations[i].fileData,
                                          invocations[i].ocr,
                                          invocations[i].reasoning)

\* both calls have run: one has returned salary data, the other, given
\* another text, was blocked by the gate
C18_Witness ==
    /\ invocations[1].pc = "returned"
    /\ invocations[1].result.success
    /\ invocations[1].scrubbedText # <<>>
    /\ invocations[2].pc = "returned"
    /\ invocations[2].hasPII
    /\ invocations[2].result.error = MSG_PII

Range(f) == {f[i] : i \in DOMAIN f}

\* enforceLTV was called with a price above zero
LtvOfValidPrice == ret.fn = "enforceLTV" /\ Truthy(call.price) /\ call.price.value > 0

\* the down payment of the call, an absent one being none at all
DownPaymentGiven == IF call.downPayment.defined THEN call.downPayment.value ELSE 0

\* C19, as stated: for a price above zero the loan is the price minus the
\* larger of the down payment and 20% of the price, it is at most 80% of
\* the price and not negative, and the adjustment is reported exactly when
\* the down payment is below 20% of the price.
C19_LoanIsPriceMinusDown ==
    LtvOfValidPrice =>
        /\ ret.ltv.loanAmount =
              call.price.value - Max(DownPaymentGiven, Percent(call.price.value, 20))
        /\ ret.ltv.loanAmount <= Percent(call.price.value, 80)
        /\ ret.ltv.loanAmount >= 0
        /\ ISSUE_ADJUSTED \in Range(ret.ltv.issues)
              <=> DownPaymentGiven < Percent(call.price.value, 20)

\* C19, amended: the loan is that difference where it is positive and zero
\* where the down payment exceeds the price; the rest as stated.
C19_LoanIsPriceMinusDownOrZero ==
    LtvOfValidPrice =>
        /\ ret.ltv.loanAmount =
              Max(0, call.price.value
                         - Max(DownPaymentGiven, Percent(call.price.value, 20)))
        /\ ret.ltv.loanAmount <= Percent(call.price.value, 80)
        /\ ret.ltv.loanAmount >= 0
        /\ ISSUE_ADJUSTED \in Range(ret.ltv.issues)
              <=> DownPaymentGiven < Percent(call.price.value, 20)

\* a down payment above the price: the loan is zero and nothing is reported
C19_Witness ==
    /\ LtvOfValidPrice
    /\ call.downPayment.defined
    /\ call.downPayment.value > call.price.value
    /\ ret.ltv.loanAmount = 0
    /\ ret.ltv.issues = <<>>

\* C20: for a price that is zero, negative or absent the loan is 0 and the
\* only issue is invalid_price, whatever the down payment.
C20_InvalidPrice ==
    (ret.fn = "enforceLTV" /\ (~call.price.defined \/ call.price.value <= 0)) =>
        /\ ret.ltv.loanAmount = 0
        /\ ret.ltv.issues = <<ISSUE_INVALID_PRICE>>

\* a price of zero with a down payment
C20_Witness ==
    /\ ret.fn = "enforceLTV"
    /\ call.price = Num(0)
    /\ Truthy(call.downPayment)
    /\ ret.ltv.loanAmount = 0
    /\ ret.ltv.issues = <<ISSUE_INVALID_PRICE>>

\* the tenure of the call is absent, not positive or above the ceiling
TenureOutOfRange ==
    \/ ~Truthy(call.tenureYears)
    \/ call.tenureYears.value <= 0
    \/ call.tenureYears.value > TENURE_DEFAULT

\* the rate of the call is absent or not positive
RateOutOfRange == ~Truthy(call.annualRate) \/ call.annualRate.value <= 0

\* C21: a tenure above 25 years, absent or not positive gives what a tenure
\* of 25 years gives, and a rate that is absent or not positive gives what
\* a rate of 4.5% gives.
C21_EmiOfClampedValues ==
    ret.fn = "calculateEMI" =>
        /\ TenureOutOfRange =>
              ret.emi = calculateEMI(call.loanAmount, call.annualRate,
                                     Num(TENURE_DEFAULT))
        /\ RateOutOfRange =>
              ret.emi = calculateEMI(call.loanAmount, Num(RATE_DEFAULT),
                                     call.tenureYears)

\* a loan asked for over 30 years is computed over 300 months
C21_Witness ==
    /\ ret.fn = "calculateEMI"
    /\ call.tenureYears = Num(30)
    /\ call.loanAmount = Num(12000)
    /\ ret.emi.monthlyEmi.months = 300
    /\ ret.emi.monthlyInterestPortion > 0

\* an amount given to a call, an absent one being none at all
Given(x) == IF x.defined THEN x.value ELSE 0

\* buyVsRentRecommendation was called with a stay that is given
AdviceForStay == ret.fn = "buyVsRentRecommendation" /\ call.stayYears.defined

\* C22: a stay below 3 years rents and a stay above 5 years buys, whatever
\* the rent, the interest and the maintenance; a stay from 3 to 5 years buys
\* exactly when interest plus maintenance is strictly below the rent.
C22_BuyVsRentThresholds ==
    AdviceForStay =>
        ret.advice.recommendation =
            IF call.stayYears.value < 3 THEN "rent"
            ELSE IF call.stayYears.value > 5 THEN "buy"
            ELSE IF Given(call.monthlyInterestPortion)
                        + Given(call.maintenanceEstimate)
                    < Given(call.monthlyRent)
            THEN "buy"
            ELSE "rent"

\* a stay of four years with costs equal to the rent: rent
C22_Witness ==
    /\ AdviceForStay
    /\ call.stayYears.value = 4
    /\ Truthy(call.monthlyRent)
    /\ Given(call.monthlyInterestPortion) + Given(call.maintenanceEstimate)
          = Given(call.monthlyRent)
    /\ ret.advice.recommendation = "rent"

\* the request is unauthenticated or its payload is malformed
Malformed(req) ==
    \/ req.token # "valid"
    \/ ~req.messagesIsArray
    \/ req.file.attached /\ (~req.file.data \/ ~req.file.mimeType)

\* C23: for a request that is unauthenticated or malformed (messages not an
\* array, a file without its data or without its MIME type) no external
\* service is called: not the OCR service, not the reasoning model, not the
\* conversation model.
C23_NoExternalCallForMalformed ==
    (request # NoRequest /\ Malformed(request)) =>
        /\ ocrRequests = <<>>
        /\ reasoningRequests = <<>>
        /\ chatCalls = 0

\* the words by which a result could name the category of what the gate found
PiiCategoryNames ==
    {"IBAN", "iban", "Emirates ID", "emirates_id", "national ID", "national_id",
     "phone", "mobile", "email"}

\* the gate has blocked the request
GateBlocked == pc \in {"extracted", "done"} /\ thrown.at = "gate"

\* C24: when the gate blocks, what extractSalaryFromDocument returns names
\* the category of PII that matched (IBAN, national ID, mobile phone or
\* email), not only that something matched.
C24_BlockNamesCategory ==
    GateBlocked =>
        \E name \in PiiCategoryNames : Contains(extractionResult.error, name)

\* the texts of the request that must not be written: what the OCR service
\* answered, what the scrubber made of it, and the PII a text can hold
TextsToKeepOut ==
    {Str(t) : t \in ({rawText, scrubbedText} \ {<<>>})
                      \cup PiiLiterals \cup {IBAN_AE_HYPHENS}}

\* C25: no log record written while a document request is handled holds
\* the raw OCR text, the scrubbed text or a piece of PII, whether the
\* request passes, is blocked by the gate or fails.
C25_NoTextInLogs ==
    \A i \in DOMAIN logs :
        \A t \in TextsToKeepOut : ~Contains(logs[i].message, t)

\* the gate has blocked a text and the failure was logged and answered
C25_Witness ==
    /\ pc = "done"
    /\ thrown.at = "gate"
    /\ rawText # <<>>
    /\ \E i \in DOMAIN logs : logs[i] = Caught(MSG_PII)
    /\ \E i \in DOMAIN logs :
          logs[i].line = "visionExtractor.js:135" /\ logs[i].number = Len(rawText)
    /\ \E i \in DOMAIN logs : logs[i].line = "route.js:60"

\* the placeholders redactPII writes
Placeholders ==
    {REDACTED_IBAN, REDACTED_PASSPORT, REDACTED_EMIRATES_ID, REDACTED_EMAIL,
     REDACTED_PHONE, REDACTED_NAME}

\* where placeholders stand in a text: first and last position of each
PlaceholderSpans(t) ==
    {<<i, i + Len(p) - 1>> :
        <<i, p>> \in {x \in (1..Len(t)) \X Placeholders :
                        /\ x[1] + Len(x[2]) - 1 <= Len(t)
                        /\ SubSeq(t, x[1], x[1] + Len(x[2]) - 1) = x[2]}}

\* what a g-flag replace of the pattern replaces in s from position i on:
\* first and last position of each match
RECURSIVE MatchSpans(_, _, _, _)
MatchSpans(re, s, starts, i) ==
    With({j : j \in {m \in starts : m >= i}}, LAMBDA later :
        IF later = {}
        THEN {}
        ELSE With(Least(later), LAMBDA j :
                 With(Ends(re, s, j)[1], LAMBDA e :
                     {<<j, e - 1>>} \cup MatchSpans(re, s, starts, e))))

\* two spans share a position
Overlap(a, b) == a[1] <= b[2] /\ b[1] <= a[2]

\* what the passes write, in the order IBAN (two patterns), passport,
\* national ID, email, phone (two patterns), honorific name, labelled name
PassOrder ==
    <<REDACTED_IBAN, REDACTED_IBAN, REDACTED_PASSPORT, REDACTED_EMIRATES_ID,
      REDACTED_EMAIL, REDACTED_PHONE, REDACTED_PHONE, REDACTED_NAME,
      NAME_REDACTED_NAME>>

\* from pass k on, t being what the passes before it made of the text: no
\* pass replaces any part of a placeholder that stands in the text it is
\* applied to, and the last pass returns `result`
RECURSIVE PassesLeavePlaceholders(_, _, _)
PassesLeavePlaceholders(k, t, result) ==
    IF k > Len(ScrubPasses)
    THEN t = result
    ELSE With(MatchStarts(ScrubPasses[k][1], t), LAMBDA starts :
             /\ \A m \in MatchSpans(ScrubPasses[k][1], t, starts, 1) :
                   \A p \in PlaceholderSpans(t) : ~Overlap(m, p)
             /\ PassesLeavePlaceholders(
                   k + 1,
                   ReplaceFrom(ScrubPasses[k][1], t, starts, 1, ScrubPasses[k][2]),
                   result))

\* C26: the passes of redactPII run in the order IBAN, passport, national
\* ID, email, phone, honorific name, labelled name, each on what the one
\* before it returned, and no pass matches any part of a placeholder that an
\* earlier pass has written.
C26_PassesLeavePlaceholders ==
    (ret.fn = "redactPII" /\ call.text \notin {<<>>, NULL, UNDEFINED}) =>
        /\ Len(ScrubPasses) = Len(PassOrder)
        /\ \A k \in DOMAIN ScrubPasses : ScrubPasses[k][2] = PassOrder[k]
        /\ PassesLeavePlaceholders(1, call.text, ret.text)

\* a name with its honorific stood right after a label: the honorific pass
\* wrote its placeholder there and the pass for labelled names left it
C26_Witness ==
    /\ call = [fn |-> "redactPII", text |-> NAME_LABEL \o HONORIFIC_NAME]
    /\ ret = [fn |-> "redactPII", text |-> NAME_LABEL \o REDACTED_NAME]

\* C30: calculate_mortgage gives a buy or rent recommendation only when the
\* EMI computation succeeded: when runEmiTool answers invalid_input, what
\* the tool returns carries no recommendation.
C30_NoAdviceWithoutEmi ==
    (ret.fn = "calculate_mortgage"
        /\ ret.mortgage.emi.error = ERROR_INVALID_INPUT) =>
        ret.mortgage.recommendation.recommendation \notin {"buy", "rent"}

\* C29: whatever the order of concurrent calls of connectDB, at most one
\* call of mongoose.connect is pending at a time; a call made after a
\* successful attempt returns the cached connection of that attempt without
\* connecting again; a call made after nothing but failed attempts starts a
\* fresh attempt.
C29_OneAttemptOneConnection ==
    /\ Cardinality(PendingAttempts) <= 1
    /\ Cardinality(ResolvedAttempts) <= 1
    /\ \A c \in Callers :
          /\ connects.calls[c].afterSuccess =>
                /\ connects.calls[c].pc = "returned"
                /\ ~connects.calls[c].started
                /\ connects.calls[c].result = cached.conn
                /\ connects.calls[c].result \in ResolvedAttempts
          /\ connects.calls[c].afterFailure => connects.calls[c].started

\* the first attempt failed while two calls awaited it, the second one
\* succeeded, and a later call got its connection from the cache
C29_Witness ==
    /\ Len(connects.attempts) = 2
    /\ connects.attempts[1] = "rejected"
    /\ connects.attempts[2] = "resolved"
    /\ \E c \in Callers :
          /\ connects.calls[c].afterSuccess
          /\ connects.calls[c].pc = "returned"
          /\ connects.calls[c].result = 2
    /\ \E c \in Callers :
          /\ connects.calls[c].afterFailure
          /\ connects.calls[c].started
          /\ connects.calls[c].result = 2

\* C27: whatever the order of submissions and responses, each "..." is
\* replaced by the response or the error of the request that created it and
\* by no other: a message put in for a "..." was written by the request of
\* that "...", and no "..." is left when no request is under way.
C27_ResponsesFillOwnPlaceholder ==
    /\ \A i \in DOMAIN chat.messages :
          (chat.messages[i].slot # 0 /\ chat.messages[i].content # MSG_THINKING) =>
              chat.messages[i].request = chat.messages[i].slot
    /\ chat.fetches = {} =>
          \A i \in DOMAIN chat.messages : chat.messages[i].content # MSG_THINKING

====
